---- MODULE Spec2Model ----
(***************************************************************************)
(* The gardener-node-agent OperatingSystemConfig reconciler                *)
(* (pkg/nodeagent/controller/operatingsystemconfig, Reconciler.Reconcile). *)
(* One reconciliation pass is a sequence of steps; pc is the position of   *)
(* the single worker inside Reconcile.  Every external call (filesystem,   *)
(* D-Bus, API server, update script) may succeed or fail.                  *)
(***************************************************************************)
EXTENDS Integers, Sequences, FiniteSets, TLC

VARIABLES
    desired,    \* id of the OSC currently stored in the secret
    fs,         \* the node's filesystem (files, unit files, drop-ins, baseline file)
    sys,        \* systemd: the enabled and the active units
    node,       \* the Node object on the API server
    osVersion,  \* the OS version /etc/os-release reports
    pods,       \* TRUE while pods are scheduled on the node
    pc,         \* position of the worker inside Reconcile ("idle" between passes)
    p,          \* the locals of the running pass (osc, node, oscChanges, ...)
    result,     \* what the last finished pass returned
    ops,        \* the D-Bus calls and unit-file mutations of the current pass, in order
    h,          \* per-pass history (what the pass has done so far)
    cancelled,  \* number of CancelContext calls of the running process
    passes,     \* passes started so far
    updates,    \* secret updates so far
    kas         \* the API server deployment and the ETCD encryption key rotation

vars == <<desired, fs, sys, node, osVersion, pods, pc, p, result, ops, h, cancelled, passes, updates,
          kas>>

\* the variables of the node-agent's reconciler
oscVars == <<desired, fs, sys, node, osVersion, pods, pc, p, result, ops, h, cancelled, passes, updates>>

-----------------------------------------------------------------------------
(* Bounds *)

MaxPasses == 3
MaxUpdates == 2

-----------------------------------------------------------------------------
(* Names and program constants *)

GNAUnit == "gardener-node-agent.service"
ContainerdUnit == "containerd.service"
kubeletUnitName == "kubelet.service"

UnitOrder == <<"u1", "u2", GNAUnit>>
PathOrder == <<"/f1", "/f2">>
DropInNames == {"d1", "d2"}

defaultFilePermissions == 600
RequeueDelay == 5
NoPermissions == 0

SeqToSet(s) == {s[i] : i \in 1..Len(s)}
UnitNames == SeqToSet(UnitOrder)
Paths == SeqToSet(PathOrder)

NoMap == [x \in {} |-> x]

-----------------------------------------------------------------------------
(* The OperatingSystemConfig documents the secret can hold.  0 stands for  *)
(* "no document" (no baseline file on disk).                               *)

NoOSC == 0
ConfigIds == {1, 2, 3, 4}

File(kind, encoding, data, perm) ==
    [kind |-> kind, encoding |-> encoding, data |-> data, perm |-> perm]

Unit(enable, command, content, dropIns, filePaths) ==
    [enable |-> enable, command |-> command, content |-> content,
     dropIns |-> dropIns, filePaths |-> filePaths]

EmptyOSC ==
    [files |-> NoMap, units |-> NoMap, osVersion |-> "nil", updateScript |-> FALSE,
     kubeletMinor |-> 0, kubeletConfig |-> 0, ca |-> 0, saKey |-> 0, criConfig |-> 0]

\* 1: the configuration a node boots with
OSC1 ==
    [files |-> ("/f1" :> File("inline", "", "x", NoPermissions)) @@
               ("/f2" :> File("imageRef", "", "img", 750)),
     units |-> ("u1" :> Unit("true", "start", "a", ("d1" :> "p"), {"/f1"})) @@
               ("u2" :> Unit("false", "nil", "b", NoMap, {"/f2"})),
     osVersion |-> "1.0", updateScript |-> TRUE,
     kubeletMinor |-> 1, kubeletConfig |-> 1, ca |-> 1, saKey |-> 1, criConfig |-> 1]

\* 2: /f1 changed (base64 now), /f2 and u2 dropped, the node-agent's own unit added
\* with one drop-in
OSC2 ==
    [files |-> ("/f1" :> File("inline", "b64", "eQ==", NoPermissions)),
     units |-> ("u1" :> Unit("true", "start", "a", ("d1" :> "p"), {"/f1"})) @@
               (GNAUnit :> Unit("false", "nil", "g", ("d1" :> "r"), {})),
     osVersion |-> "1.0", updateScript |-> TRUE,
     kubeletMinor |-> 1, kubeletConfig |-> 1, ca |-> 1, saKey |-> 1, criConfig |-> 1]

\* 3: configuration 1 with a new OS version, kubelet minor version and CA, and a new
\* image for /f2 (the file of the disabled unit u2, whose definition stays the same)
OSC3 ==
    [files |-> ("/f1" :> File("inline", "", "x", NoPermissions)) @@
               ("/f2" :> File("imageRef", "", "img2", 750)),
     units |-> ("u1" :> Unit("true", "start", "a", ("d1" :> "p"), {"/f1"})) @@
               ("u2" :> Unit("false", "nil", "b", NoMap, {"/f2"})),
     osVersion |-> "2.0", updateScript |-> TRUE,
     kubeletMinor |-> 2, kubeletConfig |-> 1, ca |-> 2, saKey |-> 1, criConfig |-> 1]

\* 4: the node-agent's own unit enabled with a restart command and a second drop-in,
\* u2 stopped and without a unit file of its own
OSC4 ==
    [files |-> ("/f1" :> File("inline", "b64", "eA==", 644)),
     units |-> ("u2" :> Unit("nil", "stop", "nil", ("d2" :> "q"), {})) @@
               (GNAUnit :> Unit("true", "restart", "h", ("d1" :> "r") @@ ("d2" :> "s"), {})),
     osVersion |-> "nil", updateScript |-> FALSE,
     kubeletMinor |-> 1, kubeletConfig |-> 1, ca |-> 1, saKey |-> 2, criConfig |-> 1]

OSC(c) ==
    CASE c = 1 -> OSC1
      [] c = 2 -> OSC2
      [] c = 3 -> OSC3
      [] c = 4 -> OSC4
      [] OTHER -> EmptyOSC

\* the checksum annotation of the secret: a hash of the raw document
Checksum(c) == 100 + c

-----------------------------------------------------------------------------
(* Diff engine: computeOperatingSystemConfigChanges(fs, osc, osVersion).   *)
(* b is the persisted baseline (NoOSC when the file does not exist), c the *)
(* desired document, cur the OS version the node reports.                  *)

fileChanged(old, new, f) ==
    /\ f \in DOMAIN new.files
    /\ (f \notin DOMAIN old.files \/ old.files[f] # new.files[f])

changedFiles(old, new) == SelectSeq(PathOrder, LAMBDA f : fileChanged(old, new, f))

deletedFiles(old, new) ==
    SelectSeq(PathOrder, LAMBDA f : f \in DOMAIN old.files /\ f \notin DOMAIN new.files)

\* mutant: the node-agent's own unit counts as changed whenever it is desired
unitChanged_OwnUnitAlways(old, new, u) ==
    /\ u \in DOMAIN new.units
    /\ \/ u = GNAUnit
       \/ u \notin DOMAIN old.units
       \/ old.units[u] # new.units[u]
       \/ \E f \in new.units[u].filePaths : fileChanged(old, new, f)

\* a unit is changed when it is new, its definition differs, or one of its files changed
unitChanged(old, new, u) ==
    /\ u \in DOMAIN new.units
    /\ \/ u \notin DOMAIN old.units
       \/ old.units[u] # new.units[u]
       \/ \E f \in new.units[u].filePaths : fileChanged(old, new, f)

oldDropIns(old, u) == IF u \in DOMAIN old.units THEN old.units[u].dropIns ELSE NoMap

changedUnit(old, new, u) ==
    [name |-> u,
     enable |-> new.units[u].enable,
     command |-> new.units[u].command,
     content |-> new.units[u].content,
     dropIns |-> new.units[u].dropIns,
     dropInsChanged |-> {d \in DOMAIN new.units[u].dropIns :
                            \/ d \notin DOMAIN oldDropIns(old, u)
                            \/ oldDropIns(old, u)[d] # new.units[u].dropIns[d]},
     dropInsDeleted |-> DOMAIN oldDropIns(old, u) \ DOMAIN new.units[u].dropIns]

RECURSIVE MapSeq(_, _, _)
MapSeq(old, new, s) ==
    IF s = <<>> THEN <<>>
    ELSE <<changedUnit(old, new, Head(s))>> \o MapSeq(old, new, Tail(s))

changedUnits(old, new) ==
    MapSeq(old, new, SelectSeq(UnitOrder, LAMBDA u : unitChanged(old, new, u)))

deletedUnits(old, new) ==
    SelectSeq(UnitOrder, LAMBDA u : u \in DOMAIN old.units /\ u \notin DOMAIN new.units)

computeOperatingSystemConfigChanges(b, c, cur) ==
    LET old == OSC(b)
        new == OSC(c)
    IN  [files |-> [changed |-> changedFiles(old, new), deleted |-> deletedFiles(old, new)],
         units |-> [changed |-> changedUnits(old, new), deleted |-> deletedUnits(old, new)],
         containerd |-> [configFileChange |-> old.criConfig # new.criConfig],
         osVersion |-> [changed |-> new.osVersion # "nil" /\ new.osVersion # cur,
                        version |-> new.osVersion],
         kubeletUpdate |-> [minorVersionUpdate |-> b # NoOSC /\ old.kubeletMinor # new.kubeletMinor,
                            configUpdate |-> b # NoOSC /\ old.kubeletConfig # new.kubeletConfig],
         caRotation |-> b # NoOSC /\ old.ca # new.ca,
         saKeyRotation |-> b # NoOSC /\ old.saKey # new.saKey]

NoChanges == computeOperatingSystemConfigChanges(NoOSC, NoOSC, "1.0")

changedUnitNames(changes) ==
    {changes.units.changed[i].name : i \in 1..Len(changes.units.changed)}

-----------------------------------------------------------------------------
(* Pure helpers of the reconciler *)

\* isInPlaceUpdate: any of the five markers
isInPlaceUpdate(changes) ==
    \/ changes.osVersion.changed
    \/ changes.kubeletUpdate.minorVersionUpdate
    \/ changes.kubeletUpdate.configUpdate
    \/ changes.caRotation
    \/ changes.saKeyRotation

\* mutant: no default for a file without declared permissions
getFilePermissions_NoDefault(file) == file.perm

\* getFilePermissions: the declared permissions, 0600 when none are declared
getFilePermissions(file) ==
    IF file.perm # NoPermissions THEN file.perm ELSE defaultFilePermissions

\* extensionsv1alpha1helper.Decode: "" is plain text, "b64" is base64
Decode(encoding, data) ==
    IF encoding = "b64"
    THEN CASE data = "eA==" -> "x"
           [] data = "eQ==" -> "y"
           [] OTHER -> "?"
    ELSE data

\* ptr.Deref(unit.Enable, true)
EnableDeref(unit) == unit.enable # "false"

\* mutant: the node-agent's own unit is treated like any other unit
enableOrDisable_NoSelfException(unit) ==
    IF EnableDeref(unit) THEN "Enable" ELSE "Disable"

\* line 486: the Enable/Disable choice of applyChangedUnits
enableOrDisable(unit) ==
    IF unit.name = GNAUnit \/ EnableDeref(unit) THEN "Enable" ELSE "Disable"

\* mutant: only the command decides, the Enable flag is ignored
stopOrRestart_CommandOnly(unit) ==
    IF unit.command = "stop" THEN "Stop" ELSE "Restart"

\* lines 569-574: the Stop/Restart choice of a fan-out task of executeUnitCommands
stopOrRestart(unit) ==
    IF ~EnableDeref(unit) \/ unit.command = "stop" THEN "Stop" ELSE "Restart"

-----------------------------------------------------------------------------
(* State *)

SyncPeriod == 3600

Absent == [present |-> FALSE, data |-> "", perm |-> NoPermissions]
OnDisk(data, perm) == [present |-> TRUE, data |-> data, perm |-> perm]

NoNode ==
    [exists |-> FALSE, checksum |-> NoOSC, k8sVersion |-> FALSE, ready |-> FALSE,
     updatingOS |-> "", updateSuccessful |-> FALSE]

NoResult == [kind |-> "none", requeueAfter |-> 0]
Returned(kind, after) == [kind |-> kind, requeueAfter |-> after]

NoHistory(b) ==
    [baseline0 |-> b, steps |-> <<>>, persisted |-> FALSE, wrote |-> FALSE,
     patched |-> FALSE, ranScript |-> FALSE, cancels |-> 0, edited0 |-> {}]

NoPass ==
    [osc |-> NoOSC, node |-> NoNode, osVersion |-> "", changes |-> NoChanges,
     i |-> 0, pending |-> {}, failed |-> FALSE, mustRestart |-> FALSE]

\* no API server deployment yet, no rotation started, no reconciliation running
NoAPIServer ==
    [phase |-> "", deployed |-> FALSE, populated |-> FALSE, encrypting |-> "none",
     config |-> TRUE, pc |-> "idle", waited |-> FALSE, err |-> "none"]

\* A node boots with configuration 1 in the secret (an update before the first pass
\* gives the other boot configurations), no baseline file and the bootstrap files.
Boot ==
    /\ desired = 1
    /\ fs = [files |-> [f \in Paths |-> Absent],
             units |-> [u \in UnitNames |-> Absent],
             dropDir |-> [u \in UnitNames |-> FALSE],
             dropIns |-> [u \in UnitNames |-> [d \in DropInNames |-> Absent]],
             baseline |-> NoOSC,
             bootstrapToken |-> TRUE,
             bootstrapKubeconfig |-> TRUE,
             containerd |-> 0]
    /\ sys = [enabled |-> {}, active |-> {}]
    /\ node \in {NoNode, [NoNode EXCEPT !.exists = TRUE]}
    /\ osVersion = "1.0"
    /\ pods = node.exists
    /\ pc = "idle"
    /\ p = NoPass
    /\ result = NoResult
    /\ ops = <<>>
    /\ h = NoHistory(NoOSC)
    /\ cancelled = 0
    /\ updates = 0
    /\ kas = NoAPIServer

Init == Boot /\ passes = 0

-----------------------------------------------------------------------------
(* The environment: the secret is updated, the kubelet registers the node, *)
(* the machine controller marks the node ready for an in-place update, the *)
(* process manager relaunches the node-agent after it cancelled itself.    *)

\* A pass works on the document and the Node object it read at its start (lines 92
\* and 97) and patches the Node object with merge patches of its own fields, so a
\* change that arrives during a pass takes effect like one that arrives right after
\* it: the environment acts between passes.
UpdateSecret(c) ==
    /\ pc = "idle"
    /\ updates < MaxUpdates
    /\ c # desired
    /\ desired' = c
    /\ updates' = updates + 1
    /\ UNCHANGED <<fs, sys, node, osVersion, pods, pc, p, result, ops, h, cancelled, passes, kas>>

RegisterNode ==
    /\ pc = "idle"
    /\ ~node.exists
    /\ node' = [node EXCEPT !.exists = TRUE]
    /\ pods' = TRUE
    /\ UNCHANGED <<desired, fs, sys, osVersion, pc, p, result, ops, h, cancelled, passes, updates, kas>>

MarkReadyForUpdate ==
    /\ pc = "idle"
    /\ node.exists
    /\ ~node.ready
    /\ node' = [node EXCEPT !.ready = TRUE]
    /\ UNCHANGED <<desired, fs, sys, osVersion, pods, pc, p, result, ops, h, cancelled, passes, updates, kas>>

Relaunch ==
    /\ pc = "idle"
    /\ cancelled > 0
    /\ cancelled' = 0
    /\ UNCHANGED <<desired, fs, sys, node, osVersion, pods, pc, p, result, ops, h, passes, updates, kas>>

\* Somebody changes the mode of a file the node-agent wrote; the action is not part
\* of Next, it is part of OutOfBandNext.  EditedPermissions is a mode that no
\* document declares.
EditedPermissions == defaultFilePermissions + 66

EditTargets ==
    {[kind |-> "unit", unit |-> "u1", name |-> ""],
     [kind |-> "dropIn", unit |-> "u2", name |-> "d2"],
     [kind |-> "file", unit |-> "", name |-> "/f1"]}

OnDiskAt(f, t) ==
    CASE t.kind = "unit" -> f.units[t.unit]
      [] t.kind = "dropIn" -> f.dropIns[t.unit][t.name]
      [] OTHER -> f.files[t.name]

ChmodOutOfBand(t) ==
    /\ pc = "idle"
    /\ OnDiskAt(fs, t).present
    /\ OnDiskAt(fs, t).perm # EditedPermissions
    /\ fs' = CASE t.kind = "unit" -> [fs EXCEPT !.units[t.unit].perm = EditedPermissions]
               [] t.kind = "dropIn" -> [fs EXCEPT !.dropIns[t.unit][t.name].perm = EditedPermissions]
               [] OTHER -> [fs EXCEPT !.files[t.name].perm = EditedPermissions]
    /\ UNCHANGED <<desired, sys, node, osVersion, pods, pc, p, result, ops, h, cancelled, passes, updates, kas>>

\* the files whose mode is an edited one
EditedOnDisk ==
    {t \in EditTargets : OnDiskAt(fs, t).present /\ OnDiskAt(fs, t).perm = EditedPermissions}

-----------------------------------------------------------------------------
(* Reconcile, step by step *)

\* the pass returns: the worker is idle again and result holds what it returned
Finish(r) ==
    /\ pc' = "idle"
    /\ result' = r

Fail == Finish(Returned("error", 0))

Done(step) == h' = [h EXCEPT !.steps = Append(@, step)]

\* mutant: the baseline is persisted before the obsolete files are removed
StepOrder_PersistEarly ==
    <<"containerdConfig", "inlineFiles", "registries", "imageRefFiles", "changedUnits",
      "deletedUnits", "daemonReload", "startContainerd", "unitCommands", "rebootstrap",
      "kubeletHealth", "waitRegistries", "persist", "deletedFiles", "inPlace", "cancel",
      "nodeNil", "bootstrapFiles", "patchNode">>

\* mutant: the units are applied before the image-ref files are written
StepOrder_UnitsBeforeImageRefFiles ==
    <<"containerdConfig", "inlineFiles", "registries", "changedUnits", "imageRefFiles",
      "deletedUnits", "daemonReload", "startContainerd", "unitCommands", "rebootstrap",
      "kubeletHealth", "waitRegistries", "deletedFiles", "inPlace", "persist", "cancel",
      "nodeNil", "bootstrapFiles", "patchNode">>

\* mutant: the daemon-reload is issued after the unit commands
StepOrder_ReloadAfterCommands ==
    <<"containerdConfig", "inlineFiles", "registries", "imageRefFiles", "changedUnits",
      "deletedUnits", "startContainerd", "unitCommands", "daemonReload", "rebootstrap",
      "kubeletHealth", "waitRegistries", "deletedFiles", "inPlace", "persist", "cancel",
      "nodeNil", "bootstrapFiles", "patchNode">>

\* mutant: the kubelet health wait precedes the rebootstrap
StepOrder_HealthBeforeRebootstrap ==
    <<"containerdConfig", "inlineFiles", "registries", "imageRefFiles", "changedUnits",
      "deletedUnits", "daemonReload", "startContainerd", "unitCommands", "kubeletHealth",
      "rebootstrap", "waitRegistries", "deletedFiles", "inPlace", "persist", "cancel",
      "nodeNil", "bootstrapFiles", "patchNode">>

\* mutant: the bootstrap files are removed before the node is looked at
StepOrder_BootstrapFilesBeforeNodeCheck ==
    <<"containerdConfig", "inlineFiles", "registries", "imageRefFiles", "changedUnits",
      "deletedUnits", "daemonReload", "startContainerd", "unitCommands", "rebootstrap",
      "kubeletHealth", "waitRegistries", "deletedFiles", "inPlace", "persist", "cancel",
      "bootstrapFiles", "nodeNil", "patchNode">>

\* mutant: containerd is started after the unit commands
StepOrder_StartContainerdAfterCommands ==
    <<"containerdConfig", "inlineFiles", "registries", "imageRefFiles", "changedUnits",
      "deletedUnits", "daemonReload", "unitCommands", "startContainerd", "rebootstrap",
      "kubeletHealth", "waitRegistries", "deletedFiles", "inPlace", "persist", "cancel",
      "nodeNil", "bootstrapFiles", "patchNode">>

\* lines 150-317: the statements of Reconcile in program order
\* mutant: the unit commands run after the baseline was persisted
StepOrder_CommandsAfterPersist ==
    <<"containerdConfig", "inlineFiles", "registries", "imageRefFiles", "changedUnits",
      "deletedUnits", "daemonReload", "startContainerd", "rebootstrap",
      "kubeletHealth", "waitRegistries", "deletedFiles", "inPlace", "persist", "unitCommands",
      "cancel", "nodeNil", "bootstrapFiles", "patchNode">>

StepOrder ==
    <<"containerdConfig", "inlineFiles", "registries", "imageRefFiles", "changedUnits",
      "deletedUnits", "daemonReload", "startContainerd", "unitCommands", "rebootstrap",
      "kubeletHealth", "waitRegistries", "deletedFiles", "inPlace", "persist", "cancel",
      "nodeNil", "bootstrapFiles", "patchNode">>

\* the statement that follows a statement that did not return
StepAfter(step) ==
    LET k == CHOOSE i \in 1..Len(StepOrder) : StepOrder[i] = step
    IN  IF k < Len(StepOrder) THEN StepOrder[k + 1] ELSE "idle"

FirstStep == Head(StepOrder)

\* lines 77-110: read the secret (it may be gone), the node, the OS version and the
\* baseline; each read may fail
BeginPass ==
    /\ pc = "idle"
    /\ cancelled = 0
    /\ ops' = <<>>
    /\ h' = [NoHistory(fs.baseline) EXCEPT !.edited0 = EditedOnDisk]
    /\ \E outcome \in {"gone", "fail", "ok"} :
         CASE outcome = "gone" -> p' = NoPass /\ Finish(Returned("ok", 0))
           [] outcome = "fail" -> p' = NoPass /\ Fail
           [] OTHER ->
                /\ p' = [NoPass EXCEPT !.osc = desired, !.node = node, !.osVersion = osVersion,
                            !.changes = computeOperatingSystemConfigChanges(fs.baseline, desired, osVersion)]
                /\ pc' = "checksum"
                /\ result' = NoResult
    /\ UNCHANGED <<desired, fs, sys, node, osVersion, pods, cancelled, updates, kas>>

\* a pass that is counted: passes are counted up to MaxPasses
StartPass ==
    /\ passes < MaxPasses
    /\ passes' = passes + 1
    /\ BeginPass

\* mutant: the fast path is never taken
upToDate_Never(n, c) == FALSE

\* lines 112-115: the no-op fast path
upToDate(n, c) == n.exists /\ n.checksum = Checksum(c)

CheckChecksum ==
    /\ pc = "checksum"
    /\ IF upToDate(p.node, p.osc)
       THEN Finish(Returned("ok", 0))
       ELSE pc' = "gate" /\ UNCHANGED result
    /\ UNCHANGED <<desired, fs, sys, node, osVersion, pods, p, ops, h, cancelled, passes, updates, kas>>

\* lines 117-123: an in-place update waits for the ready-for-update label;
\* node.Labels is read without a nil check
Gate ==
    /\ pc = "gate"
    /\ IF isInPlaceUpdate(p.changes)
       THEN IF ~p.node.exists
            THEN Finish(Returned("panic", 0))
            ELSE IF ~p.node.ready
                 THEN Finish(Returned("ok", RequeueDelay))
                 ELSE /\ pc' = (IF p.changes.osVersion.changed THEN "osUpdate" ELSE FirstStep)
                      /\ UNCHANGED result
       ELSE pc' = FirstStep /\ UNCHANGED result
    /\ UNCHANGED <<desired, fs, sys, node, osVersion, pods, p, ops, h, cancelled, passes, updates, kas>>

\* mutant: the script is run although the annotation patch failed
OSUpdate_PatchFailureIgnored ==
    /\ pc = "osUpdate"
    /\ \E outcome \in {"patchFails", "scriptFails", "updated", "pending"} :
         /\ IF outcome = "patchFails"
            THEN UNCHANGED <<node, p>> /\ h' = [h EXCEPT !.ranScript = OSC(p.osc).updateScript]
            ELSE /\ node' = [node EXCEPT !.updatingOS = p.changes.osVersion.version]
                 /\ p' = [p EXCEPT !.node.updatingOS = p.changes.osVersion.version]
                 /\ h' = [h EXCEPT !.patched = TRUE, !.ranScript = OSC(p.osc).updateScript]
         /\ IF outcome # "scriptFails" /\ OSC(p.osc).updateScript
            THEN /\ pc' = FirstStep
                 /\ UNCHANGED result
                 /\ osVersion' = (IF outcome = "updated" THEN p.changes.osVersion.version ELSE osVersion)
            ELSE Fail /\ UNCHANGED osVersion
    /\ UNCHANGED <<desired, fs, sys, pods, ops, cancelled, passes, updates, kas>>

\* lines 125-147: annotate the node, then run the update script
OSUpdate ==
    /\ pc = "osUpdate"
    /\ \E outcome \in {"patchFails", "scriptFails", "updated", "pending"} :
         /\ IF outcome = "patchFails"
            THEN UNCHANGED <<node, p>> /\ h' = h
            ELSE /\ node' = [node EXCEPT !.updatingOS = p.changes.osVersion.version]
                 /\ p' = [p EXCEPT !.node.updatingOS = p.changes.osVersion.version]
                 /\ h' = [h EXCEPT !.patched = TRUE, !.ranScript = OSC(p.osc).updateScript]
         /\ IF outcome \in {"updated", "pending"} /\ OSC(p.osc).updateScript
            THEN /\ pc' = FirstStep
                 /\ UNCHANGED result
                 /\ osVersion' = (IF outcome = "updated" THEN p.changes.osVersion.version ELSE osVersion)
            ELSE Fail /\ UNCHANGED osVersion
    /\ UNCHANGED <<desired, fs, sys, pods, ops, cancelled, passes, updates, kas>>

\* lines 150-153: ReconcileContainerdConfig
ApplyContainerdConfig ==
    /\ pc = "containerdConfig"
    /\ \E ok \in BOOLEAN :
         IF ok
         THEN /\ fs' = [fs EXCEPT !.containerd = OSC(p.osc).criConfig]
              /\ h' = [h EXCEPT !.wrote = TRUE, !.steps = Append(@, "containerdConfig")]
              /\ pc' = StepAfter("containerdConfig")
              /\ UNCHANGED result
         ELSE Fail /\ UNCHANGED <<fs, h>>
    /\ UNCHANGED <<desired, sys, node, osVersion, pods, p, ops, cancelled, passes, updates, kas>>

\* lines 371-406: applyChangedInlineFiles; p.i files have been handled.
\* The temporary directory is created before the first file (line 372).
applyChangedInlineFiles ==
    /\ pc = "inlineFiles"
    /\ LET files == p.changes.files.changed
           path == files[p.i + 1]
           file == OSC(p.osc).files[path]
       IN  IF p.i >= Len(files)
           THEN \E ok \in BOOLEAN :
                  IF ok \/ p.i > 0
                  THEN /\ pc' = StepAfter("inlineFiles")
                       /\ p' = [p EXCEPT !.i = 0]
                       /\ Done("inlineFiles")
                       /\ UNCHANGED <<fs, result>>
                  ELSE Fail /\ UNCHANGED <<fs, p, h>>
           ELSE IF file.kind # "inline"
                THEN /\ p' = [p EXCEPT !.i = @ + 1]
                     /\ UNCHANGED <<pc, result, fs, h>>
                ELSE \E ok \in BOOLEAN :
                       IF ~ok
                       THEN Fail /\ UNCHANGED <<fs, p, h>>
                       ELSE /\ p' = [p EXCEPT !.i = @ + 1]
                            /\ fs' = [fs EXCEPT !.files[path] =
                                         OnDisk(Decode(file.encoding, file.data), getFilePermissions(file))]
                            /\ h' = [h EXCEPT !.wrote = TRUE]
                            /\ UNCHANGED <<pc, result>>
    /\ UNCHANGED <<desired, sys, node, osVersion, pods, ops, cancelled, passes, updates, kas>>

\* lines 160-164: ReconcileContainerdRegistries
ApplyContainerdRegistries ==
    /\ pc = "registries"
    /\ \E ok \in BOOLEAN :
         IF ok
         THEN /\ h' = [h EXCEPT !.wrote = TRUE, !.steps = Append(@, "registries")]
              /\ pc' = StepAfter("registries")
              /\ UNCHANGED result
         ELSE Fail /\ UNCHANGED h
    /\ UNCHANGED <<desired, fs, sys, node, osVersion, pods, p, ops, cancelled, passes, updates, kas>>

\* lines 355-369: applyChangedImageRefFiles
applyChangedImageRefFiles ==
    /\ pc = "imageRefFiles"
    /\ LET files == p.changes.files.changed
           path == files[p.i + 1]
           file == OSC(p.osc).files[path]
       IN  IF p.i >= Len(files)
           THEN /\ pc' = StepAfter("imageRefFiles")
                /\ p' = [p EXCEPT !.i = 0]
                /\ Done("imageRefFiles")
                /\ UNCHANGED <<fs, result>>
           ELSE IF file.kind # "imageRef"
                THEN /\ p' = [p EXCEPT !.i = @ + 1]
                     /\ UNCHANGED <<pc, result, fs, h>>
                ELSE \E ok \in BOOLEAN :
                       IF ~ok
                       THEN Fail /\ UNCHANGED <<fs, p, h>>
                       ELSE /\ p' = [p EXCEPT !.i = @ + 1]
                            /\ fs' = [fs EXCEPT !.files[path] = OnDisk(file.data, getFilePermissions(file))]
                            /\ h' = [h EXCEPT !.wrote = TRUE]
                            /\ UNCHANGED <<pc, result>>
    /\ UNCHANGED <<desired, sys, node, osVersion, pods, ops, cancelled, passes, updates, kas>>

-----------------------------------------------------------------------------
(* systemd through D-Bus, and the log of calls *)

Op(action, unit, by) == [action |-> action, unit |-> unit, by |-> by]

\* the effect of a successful call on systemd's state
DBusEffect(s, action, unit) ==
    CASE action = "Enable" -> [s EXCEPT !.enabled = @ \cup {unit}]
      [] action = "Disable" -> [s EXCEPT !.enabled = @ \ {unit}]
      [] action \in {"Start", "Restart"} -> [s EXCEPT !.active = @ \cup {unit}]
      [] action = "Stop" -> [s EXCEPT !.active = @ \ {unit}]
      [] OTHER -> s

-----------------------------------------------------------------------------
(* applyChangedUnits, lines 420-500: one changed unit per iteration *)

\* mutant: the unit file is never written
unitFileWritten_Skipped(f, unit) == f

\* mutant: the mode is set only when the unit file is written
unitFileWritten_ModeOnlyOnWrite(f, unit) ==
    IF unit.content = "nil" THEN f
    ELSE IF f.units[unit.name].present /\ f.units[unit.name].data = unit.content THEN f
    ELSE [f EXCEPT !.units[unit.name] = OnDisk(unit.content, defaultFilePermissions)]

\* lines 424-442: the unit file is written when the bytes differ, chmod always
unitFileWritten(f, unit) ==
    IF unit.content = "nil" THEN f
    ELSE [f EXCEPT !.units[unit.name] = OnDisk(unit.content, defaultFilePermissions)]

unitFileOps(f, unit) ==
    IF unit.content # "nil"
       /\ (~f.units[unit.name].present \/ f.units[unit.name].data # unit.content)
    THEN <<Op("WriteUnitFile", unit.name, "applyChangedUnits")>>
    ELSE <<>>

\* mutant: drop-ins that are no longer desired stay in the directory
dropInsWritten_DeletedKept(f, unit) ==
    IF DOMAIN unit.dropIns = {}
    THEN [f EXCEPT !.dropDir[unit.name] = FALSE,
                   !.dropIns[unit.name] = [d \in DropInNames |-> Absent]]
    ELSE [f EXCEPT !.dropDir[unit.name] = TRUE,
                   !.dropIns[unit.name] =
                       [d \in DropInNames |->
                           IF d \in unit.dropInsChanged
                           THEN OnDisk(unit.dropIns[d], defaultFilePermissions)
                           ELSE f.dropIns[unit.name][d]]]

\* lines 444-484: the drop-in directory
dropInsWritten(f, unit) ==
    IF DOMAIN unit.dropIns = {}
    THEN [f EXCEPT !.dropDir[unit.name] = FALSE,
                   !.dropIns[unit.name] = [d \in DropInNames |-> Absent]]
    ELSE [f EXCEPT !.dropDir[unit.name] = TRUE,
                   !.dropIns[unit.name] =
                       [d \in DropInNames |->
                           IF d \in unit.dropInsChanged
                           THEN OnDisk(unit.dropIns[d], defaultFilePermissions)
                           ELSE IF d \in unit.dropInsDeleted THEN Absent
                           ELSE f.dropIns[unit.name][d]]]

dropInOps(f, unit) ==
    IF DOMAIN unit.dropIns = {}
    THEN <<Op("RemoveDropInDir", unit.name, "applyChangedUnits")>>
    ELSE (IF \E d \in unit.dropInsChanged :
                ~f.dropIns[unit.name][d].present \/ f.dropIns[unit.name][d].data # unit.dropIns[d]
          THEN <<Op("WriteDropIns", unit.name, "applyChangedUnits")>> ELSE <<>>)
         \o (IF unit.dropInsDeleted # {}
             THEN <<Op("RemoveDropIns", unit.name, "applyChangedUnits")>> ELSE <<>>)

applyChangedUnits ==
    /\ pc = "changedUnits"
    /\ LET units == p.changes.units.changed
           unit == units[p.i + 1]
           f1 == unitFileWritten(fs, unit)
           o1 == unitFileOps(fs, unit)
           f2 == dropInsWritten(f1, unit)
           o2 == o1 \o dropInOps(fs, unit)
           call == enableOrDisable(unit)
           o3 == Append(o2, Op(call, unit.name, "applyChangedUnits"))
       IN  IF p.i >= Len(units)
           THEN /\ pc' = StepAfter("changedUnits")
                /\ p' = [p EXCEPT !.i = 0]
                /\ Done("changedUnits")
                /\ UNCHANGED <<fs, sys, ops, result>>
           ELSE \E outcome \in {"failUnitFile", "failDropIns", "failEnable", "ok"} :
                  CASE outcome = "failUnitFile" ->
                         Fail /\ UNCHANGED <<fs, sys, ops, p, h>>
                    [] outcome = "failDropIns" ->
                         /\ Fail
                         /\ fs' = f1
                         /\ ops' = ops \o o1
                         /\ h' = [h EXCEPT !.wrote = TRUE]
                         /\ UNCHANGED <<sys, p>>
                    [] outcome = "failEnable" ->
                         /\ Fail
                         /\ fs' = f2
                         /\ ops' = ops \o o3
                         /\ h' = [h EXCEPT !.wrote = TRUE]
                         /\ UNCHANGED <<sys, p>>
                    [] OTHER ->
                         /\ fs' = f2
                         /\ ops' = ops \o o3
                         /\ sys' = DBusEffect(sys, call, unit.name)
                         /\ h' = [h EXCEPT !.wrote = TRUE]
                         /\ p' = [p EXCEPT !.i = @ + 1]
                         /\ UNCHANGED <<pc, result>>
    /\ UNCHANGED <<desired, node, osVersion, pods, cancelled, passes, updates, kas>>

-----------------------------------------------------------------------------
(* removeDeletedUnits, lines 502-533: one deleted unit per iteration *)

\* mutant: the deleted unit is stopped before it is disabled
deletedUnitOps_StopBeforeDisable(u, exists) ==
    (IF exists
     THEN <<Op("Stop", u, "removeDeletedUnits"), Op("Disable", u, "removeDeletedUnits"),
            Op("RemoveUnitFile", u, "removeDeletedUnits")>>
     ELSE <<>>)
    \o <<Op("RemoveDropInDir", u, "removeDeletedUnits")>>

\* lines 511-528: what one iteration does when nothing fails; the drop-in directory
\* is removed outside the unitFileExists branch
deletedUnitOps(u, exists) ==
    (IF exists
     THEN <<Op("Disable", u, "removeDeletedUnits"), Op("Stop", u, "removeDeletedUnits"),
            Op("RemoveUnitFile", u, "removeDeletedUnits")>>
     ELSE <<>>)
    \o <<Op("RemoveDropInDir", u, "removeDeletedUnits")>>

removeDeletedUnits ==
    /\ pc = "deletedUnits"
    /\ LET units == p.changes.units.deleted
           u == units[p.i + 1]
           exists == fs.units[u].present
           oAll == deletedUnitOps(u, exists)
           oDisable == SubSeq(oAll, 1, 1)
           oStop == SubSeq(oAll, 1, 2)
           oRemove == SubSeq(oAll, 1, Len(oAll) - 1)
           sDisable == IF exists THEN DBusEffect(sys, "Disable", u) ELSE sys
           sStop == IF exists THEN DBusEffect(sDisable, "Stop", u) ELSE sys
           fRemove == [fs EXCEPT !.units[u] = Absent]
           fAll == [fRemove EXCEPT !.dropDir[u] = FALSE,
                                   !.dropIns[u] = [d \in DropInNames |-> Absent]]
       IN  IF p.i >= Len(units)
           THEN /\ pc' = StepAfter("deletedUnits")
                /\ p' = [p EXCEPT !.i = 0]
                /\ Done("deletedUnits")
                /\ UNCHANGED <<fs, sys, ops, result>>
           ELSE \E outcome \in (IF exists
                                THEN {"failExists", "failDisable", "failStop", "failRemove",
                                      "failRemoveDir", "ok"}
                                ELSE {"failExists", "failRemoveDir", "ok"}) :
                  CASE outcome = "failExists" ->
                         Fail /\ UNCHANGED <<fs, sys, ops, p, h>>
                    [] outcome = "failDisable" ->
                         Fail /\ ops' = ops \o oDisable /\ UNCHANGED <<fs, sys, p, h>>
                    [] outcome = "failStop" ->
                         Fail /\ ops' = ops \o oStop /\ sys' = sDisable /\ UNCHANGED <<fs, p, h>>
                    [] outcome = "failRemove" ->
                         Fail /\ ops' = ops \o oRemove /\ sys' = sStop /\ UNCHANGED <<fs, p, h>>
                    [] outcome = "failRemoveDir" ->
                         /\ Fail
                         /\ ops' = ops \o oAll
                         /\ sys' = sStop
                         /\ fs' = fRemove
                         /\ h' = [h EXCEPT !.wrote = TRUE]
                         /\ UNCHANGED p
                    [] OTHER ->
                         /\ ops' = ops \o oAll
                         /\ sys' = sStop
                         /\ fs' = fAll
                         /\ h' = [h EXCEPT !.wrote = TRUE]
                         /\ p' = [p EXCEPT !.i = @ + 1]
                         /\ UNCHANGED <<pc, result>>
    /\ UNCHANGED <<desired, node, osVersion, pods, cancelled, passes, updates, kas>>

-----------------------------------------------------------------------------
(* lines 181-197: daemon-reload, containerd start, unit commands *)

DaemonReload ==
    /\ pc = "daemonReload"
    /\ ops' = Append(ops, Op("DaemonReload", "", "Reconcile"))
    /\ \E ok \in BOOLEAN :
         IF ok
         THEN pc' = StepAfter("daemonReload") /\ Done("daemonReload") /\ UNCHANGED result
         ELSE Fail /\ UNCHANGED h
    /\ UNCHANGED <<desired, fs, sys, node, osVersion, pods, p, cancelled, passes, updates, kas>>

\* mutant: containerd is not started after the daemon reload
StartContainerd_NotIssued ==
    /\ pc = "startContainerd"
    /\ pc' = StepAfter("startContainerd")
    /\ Done("startContainerd")
    /\ UNCHANGED <<desired, fs, sys, node, osVersion, pods, p, result, ops, cancelled, passes, updates, kas>>

\* lines 186-191: containerd is started, whatever the change-set
StartContainerd ==
    /\ pc = "startContainerd"
    /\ ops' = Append(ops, Op("Start", ContainerdUnit, "Reconcile"))
    /\ \E ok \in BOOLEAN :
         IF ok
         THEN /\ pc' = StepAfter("startContainerd")
              /\ sys' = DBusEffect(sys, "Start", ContainerdUnit)
              /\ Done("startContainerd")
              /\ UNCHANGED result
         ELSE Fail /\ UNCHANGED <<sys, h>>
    /\ UNCHANGED <<desired, fs, node, osVersion, pods, p, cancelled, passes, updates, kas>>

\* mutant: the node-agent's own unit gets a task like any other changed unit
fanOutUnits_All(changes) == 1..Len(changes.units.changed)

\* mutant: a disabled unit gets no task
fanOutUnits_EnabledOnly(changes) ==
    {i \in 1..Len(changes.units.changed) :
        /\ changes.units.changed[i].name # GNAUnit
        /\ EnableDeref(changes.units.changed[i])}

\* lines 557-575: the changed units that get a task; the node-agent's own unit is skipped
fanOutUnits(changes) ==
    {i \in 1..Len(changes.units.changed) : changes.units.changed[i].name # GNAUnit}

\* mutant: the self-restart is requested by every pass
mustRestartGardenerNodeAgent_Always(changes) == TRUE

\* line 563
mustRestartGardenerNodeAgent(changes) == GNAUnit \in changedUnitNames(changes)

\* mutant: containerd is restarted whether or not its configuration file changed
unitCommands_ContainerdAlways(changes) ==
    {[action |-> stopOrRestart(changes.units.changed[i]), unit |-> changes.units.changed[i].name] :
        i \in fanOutUnits(changes)}
    \cup (IF ContainerdUnit \notin changedUnitNames(changes)
          THEN {[action |-> "Restart", unit |-> ContainerdUnit]}
          ELSE {})

\* lines 557-581: the tasks handed to flow.Parallel
unitCommands(changes) ==
    {[action |-> stopOrRestart(changes.units.changed[i]), unit |-> changes.units.changed[i].name] :
        i \in fanOutUnits(changes)}
    \cup (IF changes.containerd.configFileChange /\ ContainerdUnit \notin changedUnitNames(changes)
          THEN {[action |-> "Restart", unit |-> ContainerdUnit]}
          ELSE {})

\* lines 535-583: executeUnitCommands builds the tasks and starts them
executeUnitCommands ==
    /\ pc = "unitCommands"
    /\ p' = [p EXCEPT !.pending = unitCommands(p.changes),
                      !.failed = FALSE,
                      !.mustRestart = mustRestartGardenerNodeAgent(p.changes)]
    /\ pc' = "parallel"
    /\ UNCHANGED <<desired, fs, sys, node, osVersion, pods, result, ops, h, cancelled, passes, updates, kas>>

\* one task of the fan-out runs; the tasks run in any order and each may fail
RunTask(t) ==
    /\ pc = "parallel"
    /\ t \in p.pending
    /\ ops' = Append(ops, Op(t.action, t.unit, "executeUnitCommands"))
    /\ \E ok \in BOOLEAN :
         IF ok
         THEN /\ sys' = DBusEffect(sys, t.action, t.unit)
              /\ p' = [p EXCEPT !.pending = @ \ {t}]
         ELSE /\ p' = [p EXCEPT !.pending = @ \ {t}, !.failed = TRUE]
              /\ UNCHANGED sys
    /\ UNCHANGED <<desired, fs, node, osVersion, pods, pc, result, h, cancelled, passes, updates, kas>>

\* flow.Parallel returns when every task has returned, with an error if one failed
Join ==
    /\ pc = "parallel"
    /\ p.pending = {}
    /\ IF p.failed
       THEN Fail /\ UNCHANGED h
       ELSE pc' = StepAfter("unitCommands") /\ Done("unitCommands") /\ UNCHANGED result
    /\ UNCHANGED <<desired, fs, sys, node, osVersion, pods, p, ops, cancelled, passes, updates, kas>>

-----------------------------------------------------------------------------
(* lines 199-241: kubelet rebootstrap, health wait, registries, deleted files *)

\* lines 586-646: rebootstrapKubelet writes a bootstrap kubeconfig from the client
\* certificate, removes the old credentials and restarts the kubelet

RebootstrapKubelet ==
    /\ pc = "rebootstrap"
    /\ IF isInPlaceUpdate(p.changes) /\ p.changes.caRotation
       THEN LET restart == Op("Restart", kubeletUnitName, "rebootstrapKubelet")
                written == [fs EXCEPT !.bootstrapKubeconfig = TRUE]
            IN  \E outcome \in {"failBeforeWrite", "failAfterWrite", "failRestart",
                                "failCleanup", "ok"} :
                  CASE outcome = "failBeforeWrite" -> Fail /\ UNCHANGED <<fs, ops, sys, h>>
                    [] outcome = "failAfterWrite" ->
                         /\ Fail
                         /\ fs' = written
                         /\ h' = [h EXCEPT !.wrote = TRUE]
                         /\ UNCHANGED <<ops, sys>>
                    [] outcome = "failRestart" ->
                         /\ Fail
                         /\ fs' = written
                         /\ ops' = Append(ops, restart)
                         /\ h' = [h EXCEPT !.wrote = TRUE]
                         /\ UNCHANGED sys
                    [] outcome = "failCleanup" ->
                         /\ Fail
                         /\ fs' = written
                         /\ ops' = Append(ops, restart)
                         /\ sys' = DBusEffect(sys, "Restart", kubeletUnitName)
                         /\ h' = [h EXCEPT !.wrote = TRUE]
                    [] OTHER ->
                         /\ fs' = written
                         /\ ops' = Append(ops, restart)
                         /\ sys' = DBusEffect(sys, "Restart", kubeletUnitName)
                         /\ h' = [h EXCEPT !.wrote = TRUE, !.steps = Append(@, "rebootstrap")]
                         /\ pc' = StepAfter("rebootstrap")
                         /\ UNCHANGED result
       ELSE pc' = StepAfter("rebootstrap") /\ UNCHANGED <<fs, ops, sys, h, result>>
    /\ UNCHANGED <<desired, node, osVersion, pods, p, cancelled, passes, updates, kas>>

KubeletHealth ==
    /\ pc = "kubeletHealth"
    /\ IF isInPlaceUpdate(p.changes) /\ p.changes.kubeletUpdate.minorVersionUpdate
       THEN \E ok \in BOOLEAN :
              IF ok
              THEN pc' = StepAfter("kubeletHealth") /\ Done("kubeletHealth") /\ UNCHANGED result
              ELSE Fail /\ UNCHANGED h
       ELSE pc' = StepAfter("kubeletHealth") /\ UNCHANGED <<h, result>>
    /\ UNCHANGED <<desired, fs, sys, node, osVersion, pods, p, ops, cancelled, passes, updates, kas>>

WaitForRegistries ==
    /\ pc = "waitRegistries"
    /\ \E ok \in BOOLEAN :
         IF ok
         THEN pc' = StepAfter("waitRegistries") /\ Done("waitRegistries") /\ UNCHANGED result
         ELSE Fail /\ UNCHANGED h
    /\ UNCHANGED <<desired, fs, sys, node, osVersion, pods, p, ops, cancelled, passes, updates, kas>>

\* mutant: removing a file that is already absent is an error
removeOutcomes_AbsentIsError(present) == IF present THEN BOOLEAN ELSE {FALSE}

\* line 410: FS.Remove may fail, but ErrFileNotFound is not taken for a failure
removeOutcomes(present) == BOOLEAN

\* lines 408-418: removeDeletedFiles
removeDeletedFiles ==
    /\ pc = "deletedFiles"
    /\ LET files == p.changes.files.deleted
       IN  IF p.i >= Len(files)
           THEN /\ pc' = StepAfter("deletedFiles")
                /\ p' = [p EXCEPT !.i = 0]
                /\ Done("deletedFiles")
                /\ UNCHANGED <<fs, result>>
           ELSE \E ok \in removeOutcomes(fs.files[files[p.i + 1]].present) :
                  IF ok
                  THEN /\ fs' = [fs EXCEPT !.files[files[p.i + 1]] = Absent]
                       /\ p' = [p EXCEPT !.i = @ + 1]
                       /\ h' = [h EXCEPT !.wrote = TRUE]
                       /\ UNCHANGED <<pc, result>>
                  ELSE Fail /\ UNCHANGED <<fs, p, h>>
    /\ UNCHANGED <<desired, sys, node, osVersion, pods, ops, cancelled, passes, updates, kas>>

-----------------------------------------------------------------------------
(* lines 250-318: the end of the pass *)

\* lines 250-286: after an in-place update the pods are deleted and the node is labelled
InPlaceUpdateDone ==
    /\ pc = "inPlace"
    /\ IF isInPlaceUpdate(p.changes)
       THEN \E outcome \in {"failList", "failDelete", "failPatch", "ok"} :
              CASE outcome = "failList" -> Fail /\ UNCHANGED <<pods, node, p, h>>
                [] outcome = "failDelete" -> Fail /\ UNCHANGED <<pods, node, p, h>>
                [] OTHER ->
                     /\ pods' = FALSE
                     /\ IF p.node.exists /\ p.node.updatingOS # ""
                           /\ p.osVersion = OSC(p.osc).osVersion
                        THEN IF outcome = "ok"
                             THEN /\ node' = [node EXCEPT !.updateSuccessful = TRUE]
                                  /\ p' = [p EXCEPT !.node.updateSuccessful = TRUE]
                                  /\ h' = [h EXCEPT !.patched = TRUE, !.steps = Append(@, "inPlace")]
                                  /\ pc' = StepAfter("inPlace")
                                  /\ UNCHANGED result
                             ELSE Fail /\ UNCHANGED <<node, p, h>>
                        ELSE /\ pc' = StepAfter("inPlace")
                             /\ Done("inPlace")
                             /\ UNCHANGED <<node, p, result>>
       ELSE pc' = StepAfter("inPlace") /\ UNCHANGED <<pods, node, p, h, result>>
    /\ UNCHANGED <<desired, fs, sys, osVersion, ops, cancelled, passes, updates, kas>>

\* lines 288-291: the desired document becomes the baseline
Persist ==
    /\ pc = "persist"
    /\ \E ok \in BOOLEAN :
         IF ok
         THEN /\ fs' = [fs EXCEPT !.baseline = p.osc]
              /\ h' = [h EXCEPT !.persisted = TRUE, !.wrote = TRUE, !.steps = Append(@, "persist")]
              /\ pc' = StepAfter("persist")
              /\ UNCHANGED result
         ELSE Fail /\ UNCHANGED <<fs, h>>
    /\ UNCHANGED <<desired, sys, node, osVersion, pods, p, ops, cancelled, passes, updates, kas>>

\* lines 293-297: the node-agent's own unit changed: cancel the process context
CancelIfMustRestart ==
    /\ pc = "cancel"
    /\ IF p.mustRestart
       THEN /\ cancelled' = cancelled + 1
            /\ h' = [h EXCEPT !.cancels = @ + 1]
            /\ Finish(Returned("ok", 0))
       ELSE pc' = StepAfter("cancel") /\ UNCHANGED <<cancelled, h, result>>
    /\ UNCHANGED <<desired, fs, sys, node, osVersion, pods, p, ops, passes, updates, kas>>

\* lines 299-302: the kubelet has not registered the node yet
WaitForNode ==
    /\ pc = "nodeNil"
    /\ IF ~p.node.exists
       THEN Finish(Returned("ok", RequeueDelay))
       ELSE pc' = StepAfter("nodeNil") /\ UNCHANGED result
    /\ UNCHANGED <<desired, fs, sys, node, osVersion, pods, p, ops, h, cancelled, passes, updates, kas>>

\* lines 304-310: the bootstrap kubeconfig and the bootstrap token are removed
RemoveBootstrapFiles ==
    /\ pc = "bootstrapFiles"
    /\ \E outcome \in {"failKubeconfig", "failToken", "ok"} :
         CASE outcome = "failKubeconfig" -> Fail /\ UNCHANGED <<fs, h>>
           [] outcome = "failToken" ->
                /\ Fail
                /\ fs' = [fs EXCEPT !.bootstrapKubeconfig = FALSE]
                /\ h' = [h EXCEPT !.wrote = TRUE]
           [] OTHER ->
                /\ fs' = [fs EXCEPT !.bootstrapKubeconfig = FALSE, !.bootstrapToken = FALSE]
                /\ h' = [h EXCEPT !.wrote = TRUE, !.steps = Append(@, "bootstrapFiles")]
                /\ pc' = StepAfter("bootstrapFiles")
                /\ UNCHANGED result
    /\ UNCHANGED <<desired, sys, node, osVersion, pods, p, ops, cancelled, passes, updates, kas>>

\* lines 312-317: the node gets the Kubernetes version label and the checksum annotation
PatchNode ==
    /\ pc = "patchNode"
    /\ \E ok \in BOOLEAN :
         IF ok
         THEN /\ node' = [node EXCEPT !.k8sVersion = TRUE, !.checksum = Checksum(p.osc)]
              /\ h' = [h EXCEPT !.patched = TRUE, !.steps = Append(@, "patchNode")]
              /\ Finish(Returned("ok", SyncPeriod))
         ELSE /\ Finish(Returned("error", SyncPeriod))
              /\ UNCHANGED <<node, h>>
    /\ UNCHANGED <<desired, fs, sys, osVersion, pods, p, ops, cancelled, passes, updates, kas>>

-----------------------------------------------------------------------------

Next ==
    \/ \E c \in ConfigIds : UpdateSecret(c)
    \/ RegisterNode
    \/ MarkReadyForUpdate
    \/ Relaunch
    \/ StartPass
    \/ CheckChecksum
    \/ Gate
    \/ OSUpdate
    \/ ApplyContainerdConfig
    \/ applyChangedInlineFiles
    \/ ApplyContainerdRegistries
    \/ applyChangedImageRefFiles
    \/ applyChangedUnits
    \/ removeDeletedUnits
    \/ DaemonReload
    \/ StartContainerd
    \/ executeUnitCommands
    \/ \E t \in p.pending : RunTask(t)
    \/ Join
    \/ RebootstrapKubelet
    \/ KubeletHealth
    \/ WaitForRegistries
    \/ removeDeletedFiles
    \/ InPlaceUpdateDone
    \/ Persist
    \/ CancelIfMustRestart
    \/ WaitForNode
    \/ RemoveBootstrapFiles
    \/ PatchNode

Spec == Init /\ [][Next]_vars

-----------------------------------------------------------------------------
(* Re-execution without end, for liveness.  The controller runs Reconcile    *)
(* again after every error and every requeue, and the relaunched process     *)
(* runs it on start.  Passes beyond MaxPasses are not counted.  The external *)
(* operations may fail in the counted passes below MaxPasses; from then on   *)
(* the secret is found and every operation succeeds.  The count starts at 1, *)
(* which leaves MaxPasses - 2 passes in which operations may fail.           *)

FairInit == Boot /\ passes = 1

\* a pass beyond the counted ones
LaterPass ==
    /\ passes = MaxPasses
    /\ UNCHANGED passes
    /\ BeginPass

\* no unit command failed, the pass did not return an error, and it did not return
\* because the secret was gone
OperationsSucceeded ==
    /\ ~p.failed
    /\ result.kind # "error"
    /\ ~(pc = "idle" /\ result.kind = "ok" /\ p.osc = NoOSC)

FairNext == (Next \/ LaterPass) /\ (passes' = MaxPasses => OperationsSucceeded')

\* a step of a running pass
PassStep == pc # "idle" /\ FairNext

\* the start of a pass
PassStart == (StartPass \/ LaterPass) /\ FairNext

\* The worker takes the next step of a running pass and starts the next pass; systemd
\* relaunches the cancelled process; the kubelet registers the node and the machine
\* controller marks it ready for the update, whatever the node-agent is doing (they
\* act between passes here, so their fairness is strong).
FairSpec ==
    /\ FairInit
    /\ [][FairNext]_vars
    /\ WF_vars(PassStep)
    /\ WF_vars(PassStart)
    /\ WF_vars(Relaunch)
    /\ SF_vars(RegisterNode)
    /\ SF_vars(MarkReadyForUpdate)

-----------------------------------------------------------------------------
(* Out-of-band edits.  Between two passes somebody changes the mode of a   *)
(* file the node-agent wrote: a unit file, a drop-in or a plain file.  The *)
(* pass itself is the one of Spec.                                         *)

\* two passes are left
OutOfBandInit == Boot /\ passes = MaxPasses - 2

OutOfBandNext == Next \/ \E t \in EditTargets : ChmodOutOfBand(t)

OutOfBandSpec == OutOfBandInit /\ [][OutOfBandNext]_vars

-----------------------------------------------------------------------------
(* ETCD encryption key rotation of an API server deployment (package       *)
(* shared).  kas.populated is the new-encryption-key-populated annotation  *)
(* of the deployment, kas.encrypting the key the deployed API server       *)
(* encrypts with ("old" or "current"), kas.config the EncryptWithCurrentKey *)
(* of the configuration in hand, kas.waited whether Wait has succeeded in  *)
(* the running reconciliation, kas.err what the last reconciliation        *)
(* returned.                                                               *)

RotationPhases == <<"", "Preparing", "Prepared", "Completing", "Completed">>

\* the credentials rotation goes through its phases; a new rotation follows a completed one
NextPhase(ph) ==
    LET k == CHOOSE i \in 1..Len(RotationPhases) : RotationPhases[i] = ph
    IN  IF k < Len(RotationPhases) THEN RotationPhases[k + 1] ELSE "Preparing"

SetRotationPhase ==
    /\ kas.pc = "idle"
    /\ kas' = [kas EXCEPT !.phase = NextPhase(@)]
    /\ UNCHANGED oscVars

\* the deployment is deleted, its annotations with it
DeleteDeployment ==
    /\ kas.pc = "idle"
    /\ kas.deployed
    /\ kas' = [kas EXCEPT !.deployed = FALSE, !.populated = FALSE, !.encrypting = "none"]
    /\ UNCHANGED oscVars

\* mutant: the annotation is not looked at
EncryptWithCurrentKey_AnnotationIgnored(phase, found, annotated) == TRUE

\* lines 144-165: true, except in phase Preparing without the annotation (a deployment
\* that is not found has no annotation)
EncryptWithCurrentKey(phase, found, annotated) ==
    IF phase = "Preparing" THEN found /\ annotated ELSE TRUE

ReturnKAS(k, e) == [k EXCEPT !.pc = "idle", !.err = e]

\* lines 133-168: in phase Preparing the deployment is read; an error other than
\* NotFound is returned
computeAPIServerETCDEncryptionConfig ==
    /\ kas.pc = "idle"
    /\ \E getFails \in BOOLEAN :
         IF getFails /\ kas.phase = "Preparing"
         THEN kas' = [ReturnKAS(kas, "error") EXCEPT !.waited = FALSE]
         ELSE kas' = [kas EXCEPT !.config = EncryptWithCurrentKey(kas.phase, kas.deployed, kas.populated),
                                 !.pc = "deploy", !.waited = FALSE, !.err = "none"]
    /\ UNCHANGED oscVars

\* the caller deploys the API server with the computed configuration and then calls
\* handleETCDEncryptionKeyRotation; an update keeps the annotations of the deployment
DeployAPIServer ==
    /\ kas.pc = "deploy"
    /\ \E ok \in BOOLEAN :
         IF ok
         THEN kas' = [kas EXCEPT !.deployed = TRUE,
                                 !.encrypting = IF kas.config THEN "current" ELSE "old",
                                 !.pc = "handle"]
         ELSE kas' = ReturnKAS(kas, "error")
    /\ UNCHANGED oscVars

\* lines 179-211: the switch on the rotation phase
handleETCDEncryptionKeyRotation ==
    /\ kas.pc = "handle"
    /\ kas' = CASE kas.phase = "Preparing" /\ ~kas.config -> [kas EXCEPT !.pc = "wait"]
              [] kas.phase = "Completing" -> [kas EXCEPT !.pc = "removeAnnotation"]
              [] OTHER -> ReturnKAS(kas, "ok")
    /\ UNCHANGED oscVars

\* lines 182-184: apiServer.Wait
WaitForAPIServer ==
    /\ kas.pc = "wait"
    /\ \E ok \in BOOLEAN :
         IF ok
         THEN kas' = [kas EXCEPT !.waited = TRUE, !.pc = "annotate"]
         ELSE kas' = ReturnKAS(kas, "error")
    /\ UNCHANGED oscVars

\* lines 190-194: PatchAPIServerDeploymentMeta sets the annotation
SetNewEncryptionKeyPopulated ==
    /\ kas.pc = "annotate"
    /\ \E ok \in BOOLEAN :
         IF ok /\ kas.deployed
         THEN kas' = [kas EXCEPT !.populated = TRUE, !.pc = "redeploy"]
         ELSE kas' = ReturnKAS(kas, "error")
    /\ UNCHANGED oscVars

\* lines 196-201: EncryptWithCurrentKey = true, SetETCDEncryptionConfig, Deploy
RedeployAPIServer ==
    /\ kas.pc = "redeploy"
    /\ \E ok \in BOOLEAN :
         IF ok
         THEN kas' = [ReturnKAS(kas, "ok") EXCEPT !.config = TRUE, !.encrypting = "current"]
         ELSE kas' = [ReturnKAS(kas, "error") EXCEPT !.config = TRUE]
    /\ UNCHANGED oscVars

\* lines 204-210: PatchAPIServerDeploymentMeta deletes the annotation
RemoveNewEncryptionKeyPopulated ==
    /\ kas.pc = "removeAnnotation"
    /\ \E ok \in BOOLEAN :
         IF ok /\ kas.deployed
         THEN kas' = [ReturnKAS(kas, "ok") EXCEPT !.populated = FALSE]
         ELSE kas' = ReturnKAS(kas, "error")
    /\ UNCHANGED oscVars

RotationNext ==
    \/ SetRotationPhase
    \/ DeleteDeployment
    \/ computeAPIServerETCDEncryptionConfig
    \/ DeployAPIServer
    \/ handleETCDEncryptionKeyRotation
    \/ WaitForAPIServer
    \/ SetNewEncryptionKeyPopulated
    \/ RedeployAPIServer
    \/ RemoveNewEncryptionKeyPopulated

RotationSpec == Init /\ [][RotationNext]_vars

-----------------------------------------------------------------------------
(* Properties *)

PassReturned == pc = "idle" /\ result.kind # "none"

StepsDone == SeqToSet(h.steps)

\* every step that precedes the persistence of the baseline in a pass that is not
\* an in-place update
StepsBeforePersist ==
    {"containerdConfig", "inlineFiles", "registries", "imageRefFiles", "changedUnits",
     "deletedUnits", "daemonReload", "startContainerd", "unitCommands", "waitRegistries",
     "deletedFiles"}

\* what a file of the document looks like on disk once it has been applied
ExpectedFile(file) ==
    OnDisk(IF file.kind = "inline" THEN Decode(file.encoding, file.data) ELSE file.data,
           IF file.perm = NoPermissions THEN defaultFilePermissions ELSE file.perm)

\* the file and unit-file operations of the pass's change-set have taken effect
ChangeSetApplied ==
    /\ \A i \in 1..Len(p.changes.files.changed) :
         fs.files[p.changes.files.changed[i]] =
             ExpectedFile(OSC(p.osc).files[p.changes.files.changed[i]])
    /\ \A i \in 1..Len(p.changes.files.deleted) :
         ~fs.files[p.changes.files.deleted[i]].present
    /\ \A i \in 1..Len(p.changes.units.changed) :
         LET unit == p.changes.units.changed[i]
         IN  /\ unit.content # "nil" =>
                   fs.units[unit.name] = OnDisk(unit.content, defaultFilePermissions)
             /\ \A d \in unit.dropInsChanged :
                   fs.dropIns[unit.name][d] = OnDisk(unit.dropIns[d], defaultFilePermissions)
             /\ \A d \in unit.dropInsDeleted :
                   ~fs.dropIns[unit.name][d].present
             /\ fs.dropDir[unit.name] = (DOMAIN unit.dropIns # {})
             /\ \E j \in 1..Len(ops) :
                   /\ ops[j].unit = unit.name
                   /\ ops[j].action \in {"Enable", "Disable"}
    /\ \A i \in 1..Len(p.changes.units.deleted) :
         /\ ~fs.units[p.changes.units.deleted[i]].present
         /\ ~fs.dropDir[p.changes.units.deleted[i]]

\* C1 as stated, for the passes that return an error: such a pass has left the
\* baseline file as it was before the pass (no pass that wrote the baseline returns an
\* error afterwards).
C1_BaselineUntouchedUnlessSuccess ==
    (PassReturned /\ result.kind = "error") => (fs.baseline = h.baseline0 /\ ~h.persisted)

\* C1 amended: the baseline file changes only in the persistence step of a pass, and
\* that step is reached only after every apply step, the fan-out, the registry wait
\* and the removal of obsolete files succeeded in that pass; a pass that ends before
\* the persistence step leaves the baseline as it was.
C1_BaselineWrittenOnlyAfterAllSteps ==
    /\ ~h.persisted => fs.baseline = h.baseline0
    /\ h.persisted => (fs.baseline = p.osc /\ StepsBeforePersist \subseteq StepsDone)

\* a pass has overwritten an existing baseline with a different document
C1_Witness ==
    /\ h.persisted
    /\ h.baseline0 # NoOSC
    /\ fs.baseline # h.baseline0
    /\ PassReturned

\* C2 as stated: whenever the node's checksum annotation equals the checksum of the
\* desired configuration, the persisted baseline is the desired configuration
\* (checked between passes).
C2_AnnotationImpliesBaseline ==
    (pc = "idle" /\ node.exists /\ node.checksum = Checksum(desired))
        => fs.baseline = desired

\* C3 as stated: once a pass has persisted the baseline, no remaining step fails or is
\* skipped: the pass ends successfully with the node's checksum annotation updated (or
\* with the self-restart cancel).
C3_NothingFailsAfterPersist ==
    (PassReturned /\ h.persisted)
        => /\ result.kind = "ok"
           /\ (h.cancels > 0 \/ (node.exists /\ node.checksum = Checksum(p.osc)))

\* C3 amended: when a pass has persisted the desired configuration as the baseline,
\* every file and unit operation of its change-set has taken effect on the node, and
\* the only steps still to run are the self-restart cancel, the missing-node requeue,
\* the removal of the bootstrap files and the node patch (which can still fail).
C3_PersistedImpliesApplied ==
    h.persisted =>
        /\ ChangeSetApplied
        /\ pc \in {"cancel", "nodeNil", "bootstrapFiles", "patchNode", "idle"}

\* the baseline was persisted for a change-set with changed and deleted units and files,
\* and the pass then failed
C3_Witness ==
    /\ h.persisted
    /\ PassReturned
    /\ result.kind = "error"
    /\ Len(p.changes.units.changed) > 0
    /\ Len(p.changes.units.deleted) > 0
    /\ Len(p.changes.files.changed) > 0

-----------------------------------------------------------------------------
(* The no-op fast path and the in-place-update gate *)

\* the pass found the node annotated with the checksum of the document it read
FoundUpToDate ==
    /\ p.osc # NoOSC
    /\ p.node.exists
    /\ p.node.checksum = Checksum(p.osc)

\* the pass has changed nothing so far: no file, no unit, no D-Bus call, no node patch,
\* no update script, no cancel, and the baseline is the one it started with
NothingDone ==
    /\ ops = <<>>
    /\ h.steps = <<>>
    /\ ~h.wrote
    /\ ~h.patched
    /\ ~h.ranScript
    /\ ~h.persisted
    /\ h.cancels = 0
    /\ fs.baseline = h.baseline0

\* C4: a pass that finds the node annotated with the checksum of the desired
\* configuration goes no further than the checksum comparison: it returns without
\* error and without requeue, and it has issued no D-Bus call, written no file, left
\* the baseline alone, patched nothing and cancelled nothing.
C4_FastPathChangesNothing ==
    FoundUpToDate =>
        /\ pc \in {"checksum", "idle"}
        /\ pc = "idle" => result = Returned("ok", 0)
        /\ NothingDone

\* a later pass took the fast path on a node that holds an applied configuration
C4_Witness ==
    /\ FoundUpToDate
    /\ pc = "idle"
    /\ result = Returned("ok", 0)
    /\ passes > 1
    /\ fs.baseline # NoOSC

\* C5 as stated: a pass whose change-set implies an in-place update and that finds no
\* ready-for-update label on the node ends in a requeue after the short delay, without
\* error, having changed nothing.
C5_GateRequeuesUnlessReady ==
    (PassReturned /\ p.osc # NoOSC /\ ~FoundUpToDate
       /\ isInPlaceUpdate(p.changes) /\ ~p.node.ready)
        => (result = Returned("ok", RequeueDelay) /\ NothingDone)

\* the same for a pass that found a Node object: this part holds
C5_GateRequeuesRegisteredNode ==
    (PassReturned /\ p.osc # NoOSC /\ ~FoundUpToDate
       /\ isInPlaceUpdate(p.changes) /\ p.node.exists /\ ~p.node.ready)
        => (result = Returned("ok", RequeueDelay) /\ NothingDone)

-----------------------------------------------------------------------------
(* Order of the steps and of the systemd operations *)

ApplyOrder ==
    <<"containerdConfig", "inlineFiles", "registries", "imageRefFiles", "changedUnits",
      "deletedUnits">>

OpIndexes == 1..Len(ops)

FanOutStarted == pc = "parallel" \/ \E j \in OpIndexes : ops[j].by = "executeUnitCommands"

ChangedFilesOnDisk ==
    \A i \in 1..Len(p.changes.files.changed) :
        fs.files[p.changes.files.changed[i]] =
            ExpectedFile(OSC(p.osc).files[p.changes.files.changed[i]])

\* C6: the apply steps complete in the order containerd configuration, inline files,
\* containerd registries, image-ref files, changed units, deleted units, each one
\* running only when the ones before it have succeeded; and every changed file of the
\* change-set is on disk when the fan-out stops or restarts units.
C6_ApplyStepsInOrder ==
    /\ \A i \in 1..Len(h.steps) : i <= Len(ApplyOrder) => h.steps[i] = ApplyOrder[i]
    /\ \A k \in 1..Len(ApplyOrder) : pc = ApplyOrder[k] => h.steps = SubSeq(ApplyOrder, 1, k - 1)
    /\ \A j \in OpIndexes :
         /\ ops[j].by = "applyChangedUnits" => Len(h.steps) >= 4
         /\ ops[j].by = "removeDeletedUnits" => Len(h.steps) >= 5
    /\ FanOutStarted => (Len(h.steps) >= Len(ApplyOrder) /\ ChangedFilesOnDisk)

\* a pass wrote an inline and an image-ref file, applied and removed units, and its
\* fan-out issued a command
C6_Witness ==
    /\ PassReturned
    /\ result.kind = "ok"
    /\ Len(p.changes.files.changed) = 2
    /\ Len(p.changes.units.changed) > 0
    /\ Len(p.changes.units.deleted) > 0
    /\ \E j \in OpIndexes : ops[j].by = "executeUnitCommands"

IsUnitCommand(o) == o.action \in {"Start", "Stop", "Restart"}

IsUnitFileOp(o) ==
    o.action \in {"WriteUnitFile", "WriteDropIns", "RemoveDropIns", "RemoveDropInDir",
                  "RemoveUnitFile"}

ReloadsBefore(i) == {j \in 1..(i - 1) : ops[j].action = "DaemonReload"}

\* C7 as stated: every Start, Stop or Restart of a pass, those for deleted units
\* included, is issued after the pass's DaemonReload.
C7_ReloadBeforeEveryUnitCommand ==
    \A i \in OpIndexes : IsUnitCommand(ops[i]) => ReloadsBefore(i) # {}

\* C7 amended: the pass issues at most one DaemonReload; every unit-file and drop-in
\* write or removal, every Enable and Disable, and the Stop of each deleted unit come
\* before it; every other Start, Stop or Restart (containerd, the fan-out, the kubelet)
\* is issued only after it has returned successfully.
C7_ReloadBetweenUnitFilesAndCommands ==
    /\ Cardinality({j \in OpIndexes : ops[j].action = "DaemonReload"}) <= 1
    /\ \A i \in OpIndexes :
         /\ (IsUnitFileOp(ops[i]) \/ ops[i].by \in {"applyChangedUnits", "removeDeletedUnits"})
               => ReloadsBefore(i) = {}
         /\ (IsUnitCommand(ops[i]) /\ ops[i].by # "removeDeletedUnits")
               => (ReloadsBefore(i) # {} /\ "daemonReload" \in StepsDone)

\* a pass stopped a deleted unit, reloaded the daemon and then restarted a changed unit
C7_Witness ==
    /\ PassReturned
    /\ \E i, j, k \in OpIndexes :
         /\ i < j /\ j < k
         /\ ops[i].action = "Stop" /\ ops[i].by = "removeDeletedUnits"
         /\ ops[j].action = "DaemonReload"
         /\ ops[k].action = "Restart" /\ ops[k].by = "executeUnitCommands"

-----------------------------------------------------------------------------
(* The node-agent's own unit *)

OwnUnitChanged == GNAUnit \in changedUnitNames(p.changes)

\* C8: the fan-out of executeUnitCommands holds no task and issues no command for the
\* node-agent's own unit; when that unit is among the changed units the must-restart
\* flag is set, and it is set in no other case.
C8_OwnUnitNotInFanOut ==
    /\ \A j \in OpIndexes : ops[j].by = "executeUnitCommands" => ops[j].unit # GNAUnit
    /\ \A t \in p.pending : t.unit # GNAUnit
    /\ p.mustRestart => OwnUnitChanged
    /\ ((pc = "parallel" \/ "unitCommands" \in StepsDone) /\ OwnUnitChanged) => p.mustRestart

\* the fan-out ran for a change-set that holds the node-agent's own unit with a restart
\* command and another changed unit
C8_Witness ==
    /\ "unitCommands" \in StepsDone
    /\ p.mustRestart
    /\ \E i \in 1..Len(p.changes.units.changed) :
         /\ p.changes.units.changed[i].name = GNAUnit
         /\ stopOrRestart(p.changes.units.changed[i]) = "Restart"
    /\ \E j \in OpIndexes : ops[j].by = "executeUnitCommands"

\* C9: a pass cancels the process context at most once, and a process is cancelled at
\* most once; the cancel happens only when the node-agent's own unit is among the
\* changed units and the pass has persisted the desired configuration as the baseline;
\* a pass that persisted the baseline with its own unit changed has cancelled when it
\* returns, and goes on to none of the node steps.
C9_CancelOnceAfterPersist ==
    /\ h.cancels <= 1
    /\ cancelled <= 1
    /\ h.cancels > 0 => (OwnUnitChanged /\ h.persisted /\ fs.baseline = p.osc)
    /\ (h.persisted /\ OwnUnitChanged) =>
          /\ pc \in {"cancel", "idle"}
          /\ pc = "idle" => (h.cancels = 1 /\ result = Returned("ok", 0))

\* a pass cancelled the context after it had overwritten an earlier baseline
C9_Witness ==
    /\ h.cancels = 1
    /\ cancelled = 1
    /\ PassReturned
    /\ h.baseline0 # NoOSC

-----------------------------------------------------------------------------
(* applyChangedUnits *)

EnableCalls(name) ==
    {j \in OpIndexes : /\ ops[j].by = "applyChangedUnits"
                       /\ ops[j].unit = name
                       /\ ops[j].action \in {"Enable", "Disable"}}

\* the rule of the claim, from the unit's name and its Enable flag
ShouldEnable(unit) == unit.name = GNAUnit \/ unit.enable \in {"true", "nil"}

\* C10: applyChangedUnits issues at most one Enable or Disable per changed unit and
\* exactly one once it has processed the unit, none for any other unit; the call is
\* Enable when the unit is the node-agent's own unit or its Enable flag is true or
\* unset, and Disable otherwise; after the step the unit is enabled accordingly.
C10_EnableOrDisable ==
    /\ \A i \in 1..Len(p.changes.units.changed) :
         LET unit == p.changes.units.changed[i]
             done == "changedUnits" \in StepsDone \/ (pc = "changedUnits" /\ i <= p.i)
         IN  /\ Cardinality(EnableCalls(unit.name)) <= 1
             /\ done => Cardinality(EnableCalls(unit.name)) = 1
             /\ \A j \in EnableCalls(unit.name) :
                   ops[j].action = (IF ShouldEnable(unit) THEN "Enable" ELSE "Disable")
             /\ done => (unit.name \in sys.enabled <=> ShouldEnable(unit))
    /\ \A u \in UnitNames \ changedUnitNames(p.changes) : EnableCalls(u) = {}

\* the node-agent's own unit, declared with Enable false, was enabled, and another unit
\* of the same pass was processed
C10_Witness ==
    /\ "changedUnits" \in StepsDone
    /\ \E i \in 1..Len(p.changes.units.changed) :
         /\ p.changes.units.changed[i].name = GNAUnit
         /\ p.changes.units.changed[i].enable = "false"
    /\ \E j \in EnableCalls(GNAUnit) : ops[j].action = "Enable"
    /\ GNAUnit \in sys.enabled
    /\ Len(p.changes.units.changed) > 1

-----------------------------------------------------------------------------
(* The fan-out of executeUnitCommands *)

FanOutCalls(name) ==
    {j \in OpIndexes : ops[j].by = "executeUnitCommands" /\ ops[j].unit = name}

\* the rule of the claim, from the unit's Enable flag and Command
ShouldStop(unit) == unit.enable = "false" \/ unit.command = "stop"

FanOutJoined == "unitCommands" \in StepsDone

\* the unit's definition in the desired document is the one of the baseline
SameDefinition(name) ==
    /\ h.baseline0 # NoOSC
    /\ name \in DOMAIN OSC(h.baseline0).units
    /\ name \in DOMAIN OSC(p.osc).units
    /\ OSC(h.baseline0).units[name] = OSC(p.osc).units[name]

\* C11: the fan-out issues at most one command per changed unit, none for the
\* node-agent's own unit, and exactly one for every other changed unit once it has
\* joined; the command is Stop when the unit's Enable flag is false or its Command is
\* stop, and Restart otherwise.
C11_StopOrRestart ==
    \A i \in 1..Len(p.changes.units.changed) :
        LET unit == p.changes.units.changed[i]
        IN  /\ Cardinality(FanOutCalls(unit.name)) <= 1
            /\ (FanOutJoined /\ unit.name # GNAUnit) => Cardinality(FanOutCalls(unit.name)) = 1
            /\ \A j \in FanOutCalls(unit.name) :
                  ops[j].action = (IF ShouldStop(unit) THEN "Stop" ELSE "Restart")

\* the fan-out stopped the disabled unit u2, whose Command is not stop and which is
\* among the changed units only because its file changed
C11_Witness ==
    /\ FanOutJoined
    /\ PassReturned
    /\ SameDefinition("u2")
    /\ OSC(p.osc).units["u2"].enable = "false"
    /\ OSC(p.osc).units["u2"].command # "stop"
    /\ \E j \in FanOutCalls("u2") : ops[j].action = "Stop"

\* the files of the unit's FilePaths that the change-set classifies as changed
ChangedFilesOf(name) ==
    OSC(p.osc).units[name].filePaths \cap SeqToSet(p.changes.files.changed)

-----------------------------------------------------------------------------
(* A pass whose baseline is already the desired configuration *)

\* the pass (running or returned) compared the desired document with itself
SameConfigurationPass == p.osc # NoOSC /\ h.baseline0 = p.osc

NoFileOrUnitChange(changes) ==
    /\ changes.files.changed = <<>>
    /\ changes.files.deleted = <<>>
    /\ changes.units.changed = <<>>
    /\ changes.units.deleted = <<>>
    /\ ~changes.containerd.configFileChange

\* the two D-Bus calls Reconcile issues itself, whatever the change-set (lines 181-191)
UnconditionalCalls ==
    {Op("DaemonReload", "", "Reconcile"), Op("Start", ContainerdUnit, "Reconcile")}

\* C13 as stated: a pass whose baseline equals the desired configuration has an empty
\* change-set, performs no filesystem operation and no systemd operation.
C13_NoOperationAtAll ==
    SameConfigurationPass => (NoFileOrUnitChange(p.changes) /\ ops = <<>> /\ ~h.wrote)

\* C13: in a pass whose baseline equals the desired configuration the lists of changed
\* and deleted files and units are empty; no step of the pass changes a file, a unit
\* file, a drop-in or the set of enabled units, and the only D-Bus calls of the pass
\* are the unconditional daemon reload and the start of containerd.
C13_SameConfigurationTouchesNoFileOrUnit ==
    [][SameConfigurationPass' =>
          /\ NoFileOrUnitChange(p'.changes)
          /\ fs'.files = fs.files
          /\ fs'.units = fs.units
          /\ fs'.dropIns = fs.dropIns
          /\ fs'.dropDir = fs.dropDir
          /\ sys'.enabled = sys.enabled
          /\ \A j \in 1..Len(ops') : ops'[j] \in UnconditionalCalls]_vars

\* a pass over an already applied configuration ran to the node patch
C13_Witness ==
    /\ SameConfigurationPass
    /\ PassReturned
    /\ result = Returned("ok", SyncPeriod)
    /\ h.persisted
    /\ ops = <<Op("DaemonReload", "", "Reconcile"), Op("Start", ContainerdUnit, "Reconcile")>>

-----------------------------------------------------------------------------
(* Deleted units *)

\* an iteration of removeDeletedUnits is about to handle a deleted unit
RemovingDeletedUnit == pc = "deletedUnits" /\ p.i < Len(p.changes.units.deleted)

DeletedUnit == p.changes.units.deleted[p.i + 1]

IsPrefix(s, t) == Len(s) <= Len(t) /\ s = SubSeq(t, 1, Len(s))

\* C14 as stated: for a deleted unit whose unit file is absent no operation is
\* performed.
C14_AbsentUnitFileNoOperation ==
    [][(RemovingDeletedUnit /\ ~fs.units[DeletedUnit].present) => ops' = ops]_vars

\* C14: for a deleted unit whose unit file exists the operations are Disable, Stop,
\* removal of the unit file, removal of the drop-in directory, in that order, each only
\* after the one before succeeded; for a deleted unit whose unit file is absent there is
\* no D-Bus call and no unit file removal, but the drop-in directory is removed all the
\* same. An iteration that succeeds leaves neither the unit file nor the drop-in
\* directory.
C14_DeletedUnitRemoval ==
    [][RemovingDeletedUnit =>
          LET u == DeletedUnit
              by == "removeDeletedUnits"
              done == SubSeq(ops', Len(ops) + 1, Len(ops'))
              all == IF fs.units[u].present
                     THEN <<Op("Disable", u, by), Op("Stop", u, by),
                            Op("RemoveUnitFile", u, by), Op("RemoveDropInDir", u, by)>>
                     ELSE <<Op("RemoveDropInDir", u, by)>>
          IN  /\ Len(ops') >= Len(ops)
              /\ IsPrefix(done, all)
              /\ ~fs.units[u].present => sys' = sys
              /\ pc' = "deletedUnits" =>
                    /\ done = all
                    /\ ~fs'.units[u].present
                    /\ ~fs'.dropDir[u]]_vars

\* a deleted unit whose file was on disk was disabled, stopped and removed, and the pass
\* went on
C14_Witness ==
    /\ "deletedUnits" \in StepsDone
    /\ \E u \in SeqToSet(p.changes.units.deleted) :
         /\ \E j \in OpIndexes : ops[j] = Op("Disable", u, "removeDeletedUnits")
         /\ \E j \in OpIndexes : ops[j] = Op("RemoveDropInDir", u, "removeDeletedUnits")
         /\ ~fs.units[u].present
         /\ u \notin sys.enabled

\* a deleted unit whose file was already gone: only its drop-in directory was removed
C14_AbsentWitness ==
    /\ "deletedUnits" \in StepsDone
    /\ \E u \in SeqToSet(p.changes.units.deleted) :
         /\ \A j \in OpIndexes : ops[j].unit = u => ops[j] = Op("RemoveDropInDir", u, "removeDeletedUnits")
         /\ \E j \in OpIndexes : ops[j].unit = u

-----------------------------------------------------------------------------
(* Fan-out and join *)

\* the statements of Reconcile after executeUnitCommands (lines 199-317)
LaterSteps ==
    {"rebootstrap", "kubeletHealth", "waitRegistries", "deletedFiles", "inPlace", "persist",
     "cancel", "nodeNil", "bootstrapFiles", "patchNode"}

\* the pass has reached, or has executed, a statement after executeUnitCommands
PastFanOut ==
    /\ p.osc # NoOSC
    /\ (pc \in LaterSteps \/ StepsDone \cap LaterSteps # {} \/ h.persisted)

CallsOf(t) == {j \in OpIndexes : ops[j] = Op(t.action, t.unit, "executeUnitCommands")}

\* C15: when the pass is at or past any statement after executeUnitCommands, every
\* command of the fan-out has been issued exactly once, none is pending and none failed;
\* when a command failed the pass goes nowhere but to its error return, and the
\* baseline is not persisted; every command of the fan-out precedes the kubelet restart
\* of the rebootstrap.
C15_FanOutJoin ==
    /\ PastFanOut =>
          /\ FanOutJoined
          /\ ~p.failed
          /\ p.pending = {}
          /\ \A t \in unitCommands(p.changes) : Cardinality(CallsOf(t)) = 1
    /\ p.failed =>
          /\ ~h.persisted
          /\ ~FanOutJoined
          /\ pc \in {"parallel", "idle"}
          /\ pc = "idle" => result = Returned("error", 0)
    /\ \A j, k \in OpIndexes :
          (ops[j].by = "executeUnitCommands" /\ ops[k].by = "rebootstrapKubelet") => j < k

\* two commands of one fan-out ran in the reverse of their order in the change-set, and
\* the pass went on to persist the baseline
C15_Witness ==
    /\ PastFanOut
    /\ h.persisted
    /\ Len(p.changes.units.changed) >= 2
    /\ \E j, k \in OpIndexes :
         /\ j < k
         /\ ops[j].by = "executeUnitCommands"
         /\ ops[k].by = "executeUnitCommands"
         /\ ops[j].unit = p.changes.units.changed[2].name
         /\ ops[k].unit = p.changes.units.changed[1].name

\* one command of a fan-out of two failed: the other one ran all the same and the pass
\* returned the error
C15_FailureWitness ==
    /\ p.failed
    /\ PassReturned
    /\ Cardinality({j \in OpIndexes : ops[j].by = "executeUnitCommands"}) = 2

-----------------------------------------------------------------------------
(* Convergence *)

Converged == node.exists /\ node.checksum = Checksum(desired) /\ node.k8sVersion

-----------------------------------------------------------------------------
(* The end of an in-place update *)

\* the pass has deleted the pods of the node (and labelled the node, where it applies)
PodsDeletedInPass == "inPlace" \in StepsDone

\* C17: the pods are deleted and the update-successful label is applied only after the
\* baseline has been persisted, and no pod is deleted in a pass that then fails to
\* persist the baseline.
C17_PodsDeletedOnlyAfterPersist ==
    /\ PodsDeletedInPass => h.persisted
    /\ (PassReturned /\ result.kind = "error" /\ ~h.persisted) => ~PodsDeletedInPass

\* what the code does instead: the pods are deleted after the deleted files were removed
\* and before the baseline is written
C17_PodsDeletedBeforePersist ==
    /\ PodsDeletedInPass => "deletedFiles" \in StepsDone
    /\ (h.persisted /\ isInPlaceUpdate(p.changes)) => PodsDeletedInPass

\* the pods were deleted and the node was labelled, and then the baseline write failed
C17_FailedAfterPodsDeleted ==
    /\ PodsDeletedInPass
    /\ PassReturned
    /\ result.kind = "error"
    /\ ~h.persisted
    /\ ~pods
    /\ node.updateSuccessful
    /\ fs.baseline = h.baseline0

-----------------------------------------------------------------------------
(* The systemd operations of a successful pass *)

\* the pass applied the change-set, persisted the baseline and returned without error
SuccessfulPass == PassReturned /\ result.kind = "ok" /\ h.persisted

IsDBusCall(o) == o.action \in {"Enable", "Disable", "Start", "Stop", "Restart", "DaemonReload"}

Times(o) == Cardinality({j \in OpIndexes : ops[j] = o})

ChangedUnitsOf(changes) == {changes.units.changed[i] : i \in 1..Len(changes.units.changed)}

\* one Enable or Disable per changed unit
EnableDisableCalls(changes) ==
    {Op(IF ShouldEnable(u) THEN "Enable" ELSE "Disable", u.name, "applyChangedUnits") :
        u \in ChangedUnitsOf(changes)}

\* one Disable and one Stop per deleted unit
DeletedUnitCalls(u) ==
    {Op("Disable", u, "removeDeletedUnits"), Op("Stop", u, "removeDeletedUnits")}

\* one Stop or Restart per changed unit other than the node-agent's own unit
CommandCalls(changes) ==
    {Op(IF ShouldStop(u) THEN "Stop" ELSE "Restart", u.name, "executeUnitCommands") :
        u \in {c \in ChangedUnitsOf(changes) : c.name # GNAUnit}}

\* the restart of containerd after a change of its configuration file (lines 577-581)
\* and the restart of the kubelet by the rebootstrap (line 636)
OtherRestarts(changes) ==
    (IF changes.containerd.configFileChange /\ ContainerdUnit \notin changedUnitNames(changes)
     THEN {Op("Restart", ContainerdUnit, "executeUnitCommands")} ELSE {})
    \cup (IF isInPlaceUpdate(changes) /\ changes.caRotation
          THEN {Op("Restart", kubeletUnitName, "rebootstrapKubelet")} ELSE {})

\* the calls the claim lists
ListedCalls(changes) ==
    EnableDisableCalls(changes) \cup CommandCalls(changes)
    \cup {Op("DaemonReload", "", "Reconcile")}
    \cup UNION {DeletedUnitCalls(u) : u \in SeqToSet(changes.units.deleted)}

-----------------------------------------------------------------------------
(* A pass that finds no Node object *)

\* getNode returned nil: the kubelet has not registered the node yet
FoundNoNode == p.osc # NoOSC /\ ~p.node.exists

\* C19: a pass that finds no Node object does not crash on the missing node, whatever
\* the change-set, and when none of its operations fails it ends in a requeue (or in
\* the self-restart cancel, after which the relaunched process runs the next pass).
C19_MissingNodeIsTransient ==
    (FoundNoNode /\ PassReturned) =>
        /\ result.kind # "panic"
        /\ result.kind = "ok" => (result = Returned("ok", RequeueDelay) \/ h.cancels = 1)

\* what holds in the code: when the change-set implies no in-place update, the pass
\* applies it, persists the baseline and ends in a requeue after 5 seconds without
\* patching the node
C19_MissingNodeRequeuesUnlessInPlace ==
    (FoundNoNode /\ PassReturned /\ ~isInPlaceUpdate(p.changes)) =>
        /\ result.kind \in {"ok", "error"}
        /\ result.kind = "ok" =>
              /\ h.persisted
              /\ ~h.patched
              /\ (result = Returned("ok", RequeueDelay) \/ h.cancels = 1)

\* the pass of an unregistered node whose change-set implies an in-place update crashed
C19_CrashWitness ==
    /\ FoundNoNode
    /\ PassReturned
    /\ isInPlaceUpdate(p.changes)
    /\ result.kind = "panic"
    /\ NothingDone

-----------------------------------------------------------------------------
(* Retry after a failed pass *)

\* the step the pass is at can be taken without an error
StepCanSucceed == ENABLED (Next /\ result'.kind # "error" /\ ~p'.failed)

-----------------------------------------------------------------------------
(* The OS update step *)

\* the node carries the annotation with the version the pass updates to
AnnotatedWithTarget(n) == n.updatingOS = p.changes.osVersion.version

-----------------------------------------------------------------------------
(* The update-successful label *)

\* the node carries the annotation of an OS update and its OS reports that version
UpdatedToTarget == node.exists /\ node.updatingOS # "" /\ osVersion = node.updatingOS

\* C22: once the node was annotated for an OS update and its OS reports the desired
\* version, the node is eventually labelled update-successful (unless the desired OS
\* version is no longer the one the node reports).
C22_EventuallyLabelled ==
    (UpdatedToTarget /\ OSC(desired).osVersion = osVersion)
        ~> (node.updateSuccessful \/ OSC(desired).osVersion # osVersion)

\* the safety half, which holds: the label is set only by a pass whose desired OS
\* version is the one the node reports
C22_LabelOnlyWhenVersionMatches ==
    [][(node'.updateSuccessful /\ ~node.updateSuccessful) =>
          (pc = "inPlace" /\ osVersion = OSC(p.osc).osVersion)]_vars

\* the pass that ran the update script went on to the node patch: the OS reports the
\* desired version, the node carries the checksum of the desired configuration and no
\* update-successful label
C22_NeverLabelled ==
    /\ UpdatedToTarget
    /\ OSC(desired).osVersion = osVersion
    /\ PassReturned
    /\ h.ranScript
    /\ h.persisted
    /\ node.checksum = Checksum(desired)
    /\ ~node.updateSuccessful

-----------------------------------------------------------------------------
(* C23: kubelet rebootstrap and health wait *)

MustRebootstrap == isInPlaceUpdate(p.changes) /\ p.changes.caRotation

MustWaitForKubelet == isInPlaceUpdate(p.changes) /\ p.changes.kubeletUpdate.minorVersionUpdate

RebootstrapCalls == {j \in OpIndexes : ops[j].by = "rebootstrapKubelet"}

StepIndex(step) == {i \in 1..Len(h.steps) : h.steps[i] = step}

\* the pass is at or past the registry wait
PastKubelet ==
    /\ p.osc # NoOSC
    /\ \/ pc \in LaterSteps \ {"rebootstrap", "kubeletHealth"}
       \/ StepsDone \cap (LaterSteps \ {"rebootstrap", "kubeletHealth"}) # {}
       \/ h.persisted

\* C23: the kubelet is rebootstrapped only in an in-place update with CA rotation, after
\* the fan-out of unit commands has joined and before the health wait; the health wait
\* runs only for a kubelet minor-version update; when one of them is due, the registry
\* wait, the removal of deleted files and the persistence of the baseline happen only
\* after it succeeded, and a rebootstrap that did not succeed ends the pass in error.
C23_KubeletHandling ==
    /\ (RebootstrapCalls # {} \/ "rebootstrap" \in StepsDone) =>
          /\ MustRebootstrap
          /\ FanOutJoined
          /\ Cardinality(RebootstrapCalls) = 1
          /\ \A j \in RebootstrapCalls : ops[j] = Op("Restart", kubeletUnitName, "rebootstrapKubelet")
          /\ \A i \in StepIndex("rebootstrap") :
                /\ \A k \in StepIndex("unitCommands") : k < i
                /\ \A k \in StepIndex("kubeletHealth") : i < k
          /\ "rebootstrap" \notin StepsDone =>
                (pc = "idle" /\ result = Returned("error", 0) /\ "kubeletHealth" \notin StepsDone)
    /\ pc = "kubeletHealth" => (FanOutJoined /\ (MustRebootstrap => "rebootstrap" \in StepsDone))
    /\ "kubeletHealth" \in StepsDone =>
          /\ MustWaitForKubelet
          /\ FanOutJoined
          /\ MustRebootstrap => "rebootstrap" \in StepsDone
    /\ PastKubelet =>
          /\ MustRebootstrap => "rebootstrap" \in StepsDone
          /\ MustWaitForKubelet => "kubeletHealth" \in StepsDone

\* a pass rebootstrapped the kubelet, waited for its health and went on to persist
C23_Witness ==
    /\ PassReturned /\ result.kind = "ok"
    /\ MustRebootstrap /\ MustWaitForKubelet
    /\ RebootstrapCalls # {}
    /\ StepIndex("rebootstrap") # {} /\ StepIndex("kubeletHealth") # {}
    /\ h.persisted

\* the health wait failed after the rebootstrap: nothing of the rest of the pass ran
C23_FailureWitness ==
    /\ PassReturned /\ result = Returned("error", 0)
    /\ MustWaitForKubelet
    /\ "rebootstrap" \in StepsDone /\ "kubeletHealth" \notin StepsDone
    /\ StepsDone \cap {"waitRegistries", "deletedFiles", "persist"} = {}
    /\ ~h.persisted

-----------------------------------------------------------------------------
(* C24: removal of the bootstrap files *)

BootstrapFileRemoved ==
    \/ fs.bootstrapKubeconfig /\ ~fs'.bootstrapKubeconfig
    \/ fs.bootstrapToken /\ ~fs'.bootstrapToken

BootstrapFilesAbsent == ~fs.bootstrapKubeconfig /\ ~fs.bootstrapToken

\* C24: a bootstrap file (token, bootstrap kubeconfig) disappears only in the removal
\* step of a pass that found the node, after that pass persisted the baseline and
\* without a self-restart cancel; a pass that requeued for a missing node or cancelled
\* has not executed the removal; with both files absent the removal step can still go
\* on to the node patch.
C24_BootstrapFilesRemoval ==
    [][/\ BootstrapFileRemoved =>
             /\ pc = "bootstrapFiles"
             /\ p.node.exists
             /\ h.persisted /\ fs.baseline = p.osc
             /\ ~p.mustRestart /\ h.cancels = 0
             /\ pc' \in {"patchNode", "idle"}
             /\ pc' = "idle" => result' = Returned("error", 0)
       /\ (~p.node.exists \/ h.cancels > 0) => "bootstrapFiles" \notin StepsDone
       /\ (pc = "bootstrapFiles" /\ BootstrapFilesAbsent) =>
             ENABLED (RemoveBootstrapFiles /\ pc' = "patchNode")]_vars

\* a pass removed both bootstrap files and returned
C24_Witness ==
    /\ PassReturned /\ result.kind = "ok"
    /\ "bootstrapFiles" \in StepsDone
    /\ p.node.exists /\ h.persisted
    /\ BootstrapFilesAbsent

\* the removal step is reached with both files already absent
C24_AbsentWitness ==
    /\ pc = "bootstrapFiles" /\ BootstrapFilesAbsent
    /\ p.node.exists /\ h.persisted

-----------------------------------------------------------------------------
(* C25: the defensive start of containerd *)

ReloadCalls == {j \in OpIndexes : ops[j] = Op("DaemonReload", "", "Reconcile")}

ContainerdStarts == {j \in OpIndexes : ops[j] = Op("Start", ContainerdUnit, "Reconcile")}

FanOutOps == {j \in OpIndexes : ops[j].by = "executeUnitCommands"}

C25_FailureWitness ==
    /\ PassReturned /\ result = Returned("error", 0)
    /\ ContainerdStarts # {} /\ "startContainerd" \notin StepsDone
    /\ unitCommands(p.changes) # {}

-----------------------------------------------------------------------------
(* C26: idempotent write of unit files and drop-ins *)

BytesDiffer(cur, bytes) == ~cur.present \/ cur.data # bytes

\* the operations the step has appended
NewOps == SeqToSet(SubSeq(ops', Len(ops) + 1, Len(ops')))

\* applyChangedUnits has handled one more changed unit
UnitApplied ==
    /\ pc = "changedUnits"
    /\ p.i < Len(p.changes.units.changed)
    /\ p'.i = p.i + 1

UnitU1 == [kind |-> "unit", unit |-> "u1", name |-> ""]

C26_DropInWitness ==
    /\ [kind |-> "dropIn", unit |-> "u2", name |-> "d2"] \in h.edited0
    /\ "changedUnits" \in StepsDone
    /\ \E i \in 1..Len(p.changes.units.changed) :
          p.changes.units.changed[i].name = "u2" /\ "d2" \in p.changes.units.changed[i].dropInsChanged
    /\ Op("WriteDropIns", "u2", "applyChangedUnits") \notin SeqToSet(ops)
    /\ fs.dropIns["u2"]["d2"] = OnDisk("q", defaultFilePermissions)

-----------------------------------------------------------------------------
(* C27: the drop-in directory of a changed unit *)

\* the drop-ins of the unit on disk are the ones of the baseline the change-set was
\* computed against
DropInsMatchBaseline(u) ==
    LET old == oldDropIns(OSC(h.baseline0), u)
    IN  \A d \in DropInNames :
          IF d \in DOMAIN old
          THEN fs.dropIns[u][d].present /\ fs.dropIns[u][d].data = old[d]
          ELSE ~fs.dropIns[u][d].present

\* C27: when applyChangedUnits has handled a changed unit whose drop-ins on disk were
\* those of the baseline, the drop-in directory does not exist if the unit has no
\* desired drop-in, and otherwise exists and holds exactly the desired drop-ins with
\* their desired content.
C27_DropInDirectory ==
    [][(UnitApplied /\ DropInsMatchBaseline(p.changes.units.changed[p.i + 1].name)) =>
         LET unit == p.changes.units.changed[p.i + 1]
         IN  IF DOMAIN unit.dropIns = {}
             THEN /\ ~fs'.dropDir[unit.name]
                  /\ \A d \in DropInNames : ~fs'.dropIns[unit.name][d].present
             ELSE /\ fs'.dropDir[unit.name]
                  /\ \A d \in DropInNames :
                        IF d \in DOMAIN unit.dropIns
                        THEN /\ fs'.dropIns[unit.name][d].present
                             /\ fs'.dropIns[unit.name][d].data = unit.dropIns[d]
                        ELSE ~fs'.dropIns[unit.name][d].present]_vars

\* configuration 4 was applied by the first pass; the second pass, towards
\* configuration 2, has removed drop-in d2 of the node-agent's unit and kept d1
C27_Witness ==
    /\ passes = 2 /\ h.baseline0 = 4 /\ p.osc = 2
    /\ "changedUnits" \in StepsDone
    /\ Op("RemoveDropIns", GNAUnit, "applyChangedUnits") \in SeqToSet(ops)
    /\ fs.dropDir[GNAUnit]
    /\ fs.dropIns[GNAUnit]["d1"].present /\ fs.dropIns[GNAUnit]["d1"].data = "r"
    /\ ~fs.dropIns[GNAUnit]["d2"].present

\* the second pass, from configuration 4 to configuration 1, has removed the drop-in
\* directory of u2, which has no drop-in any more
C27_EmptyWitness ==
    /\ passes = 2 /\ h.baseline0 = 4 /\ p.osc = 1
    /\ "changedUnits" \in StepsDone
    /\ Op("RemoveDropInDir", "u2", "applyChangedUnits") \in SeqToSet(ops)
    /\ ~fs.dropDir["u2"] /\ ~fs.dropIns["u2"]["d2"].present

\* without the premise: u1 was removed by a pass that failed before persisting, the
\* next pass handles u1 as a changed unit with no changed drop-in, and d1 is missing
C27_UnmatchedDisk ==
    /\ "changedUnits" \in StepsDone
    /\ "u1" \in changedUnitNames(p.changes)
    /\ fs.dropDir["u1"] /\ ~fs.dropIns["u1"]["d1"].present

-----------------------------------------------------------------------------
(* C28: permissions of the files of the document *)

DeclaredPermissions(file) ==
    IF file.perm = NoPermissions THEN defaultFilePermissions ELSE file.perm

FileF1 == [kind |-> "file", unit |-> "", name |-> "/f1"]

ChangedPaths == SeqToSet(p.changes.files.changed)

\* the pass has persisted the baseline and has not returned yet
PersistedInPass == h.persisted /\ pc # "idle"

\* C28 as stated: once a pass has applied a configuration, every file of the desired
\* document is on disk with its declared permissions, 0600 when none are declared.
C28_DeclaredPermissionsOnEveryFile ==
    PersistedInPass =>
        \A f \in DOMAIN OSC(p.osc).files :
            /\ fs.files[f].present
            /\ fs.files[f].perm = DeclaredPermissions(OSC(p.osc).files[f])

\* C28, amended: once the file steps of a pass are done, every changed file of the
\* document is on disk with its declared permissions, 0600 when none are declared,
\* whatever its mode was before; a file that is not in the change-set and whose mode
\* was edited before the pass still has the edited mode.
C28_DeclaredPermissionsOnChangedFiles ==
    /\ ("imageRefFiles" \in StepsDone /\ pc # "idle") =>
          \A f \in ChangedPaths :
              /\ fs.files[f].present
              /\ fs.files[f].perm = DeclaredPermissions(OSC(p.osc).files[f])
    /\ \A t \in h.edited0 :
          (t.kind = "file" /\ t.name \notin ChangedPaths /\ fs.files[t.name].present) =>
              fs.files[t.name].perm = EditedPermissions

\* /f1, which declares no permissions, had an edited mode; the pass wrote it as a
\* changed file and persisted: it has the default mode
C28_Witness ==
    /\ PersistedInPass
    /\ FileF1 \in h.edited0
    /\ "/f1" \in ChangedPaths
    /\ OSC(p.osc).files["/f1"].perm = NoPermissions
    /\ fs.files["/f1"].perm = defaultFilePermissions

\* /f1 had an edited mode and is not in the change-set of a pass that wrote /f2: the
\* pass persisted and /f1 still has the edited mode
C28_UnchangedWitness ==
    /\ PersistedInPass
    /\ FileF1 \in h.edited0
    /\ "/f1" \in DOMAIN OSC(p.osc).files
    /\ ChangedPaths = {"/f2"}
    /\ fs.files["/f1"].perm = EditedPermissions
    /\ fs.files["/f2"].perm = DeclaredPermissions(OSC(p.osc).files["/f2"])

-----------------------------------------------------------------------------
(* C29: no self-restart loop *)

\* the pass has returned after it cancelled the process context
CancelledPassReturned == pc = "idle" /\ h.cancels = 1

\* the change-set the next pass computes if it starts now
NextChanges == computeOperatingSystemConfigChanges(fs.baseline, desired, osVersion)

\* C29: when a pass has cancelled the process context and the desired configuration is
\* still the one it applied, the change-set of the next pass does not hold the
\* node-agent's own unit; a pass whose desired configuration is the baseline it found
\* does not have its own unit among the changed units, does not set the must-restart
\* flag and does not cancel; when such a pass has persisted and returned without error,
\* it has patched the node with the checksum (node found) or asked for a requeue (node
\* not found).
C29_NoSelfRestartLoop ==
    /\ (CancelledPassReturned /\ desired = p.osc) =>
          /\ fs.baseline = desired
          /\ GNAUnit \notin changedUnitNames(NextChanges)
          /\ ~mustRestartGardenerNodeAgent(NextChanges)
    /\ SameConfigurationPass =>
          /\ ~OwnUnitChanged
          /\ ~p.mustRestart
          /\ h.cancels = 0
          /\ (PassReturned /\ h.persisted /\ result.kind = "ok") =>
                IF p.node.exists
                THEN /\ "patchNode" \in StepsDone
                     /\ result = Returned("ok", SyncPeriod)
                     /\ node.checksum = Checksum(p.osc)
                ELSE result = Returned("ok", RequeueDelay)

\* the first pass applied a configuration with the node-agent's own unit and cancelled;
\* the second pass, for the same configuration, did not cancel and patched the node
C29_Witness ==
    /\ passes = 2 /\ updates = 1
    /\ SameConfigurationPass
    /\ GNAUnit \in DOMAIN OSC(p.osc).units
    /\ PassReturned /\ result = Returned("ok", SyncPeriod)
    /\ h.cancels = 0 /\ cancelled = 0
    /\ "patchNode" \in StepsDone
    /\ node.checksum = Checksum(desired)

-----------------------------------------------------------------------------
(* C30: ETCD encryption key rotation *)

Reconciling == kas.pc # "idle"

\* C30: in phase Preparing a configuration that encrypts with the current key is in
\* hand only if the deployment carries the annotation; the annotation is set only in
\* phase Preparing, after Wait has succeeded in the same reconciliation on an API server
\* deployed to encrypt with the old key; in phase Preparing the API server comes to
\* encrypt with the current key only with the annotation set; a failed Wait returns the
\* error with the annotation and the deployment as they were; a reconciliation of phase
\* Completing that returns without error leaves the deployment without the annotation.
C30_EncryptionKeyRotation ==
    [][/\ (kas.phase = "Preparing" /\ kas.pc \in {"deploy", "handle"} /\ kas.config) => kas.populated
       /\ (kas'.populated /\ ~kas.populated) =>
             /\ kas.phase = "Preparing"
             /\ kas.pc = "annotate"
             /\ kas.waited
             /\ kas.deployed /\ kas.encrypting = "old"
       /\ (kas.phase = "Preparing" /\ kas'.encrypting = "current" /\ kas.encrypting # "current") =>
             kas.populated
       /\ (kas.pc = "wait" /\ kas'.pc = "idle") =>
             /\ kas'.err = "error"
             /\ kas'.populated = kas.populated
             /\ kas'.encrypting = kas.encrypting
             /\ ~kas'.waited
       /\ (kas.phase = "Completing" /\ Reconciling /\ kas'.pc = "idle" /\ kas'.err = "ok") =>
             ~kas'.populated]_vars

\* a reconciliation of phase Preparing waited for the API server with the old key, set
\* the annotation and redeployed the API server with the current key
C30_Witness ==
    /\ kas.phase = "Preparing"
    /\ kas.pc = "idle" /\ kas.err = "ok"
    /\ kas.waited /\ kas.populated
    /\ kas.encrypting = "current"

\* Wait failed: the annotation is not set and the API server keeps the old key
C30_WaitFailedWitness ==
    /\ kas.phase = "Preparing"
    /\ kas.pc = "idle" /\ kas.err = "error"
    /\ kas.deployed /\ ~kas.populated /\ kas.encrypting = "old"

\* a reconciliation of phase Completing removed the annotation
C30_CompletingWitness ==
    /\ kas.phase = "Completing"
    /\ kas.pc = "idle" /\ kas.err = "ok"
    /\ kas.deployed /\ ~kas.populated /\ kas.encrypting = "current"

====
